---- MODULE Spec2Model ----
(***************************************************************************)
(* The prescriptive recommendation scripts of the cost-to-serve analytics  *)
(* repository (src/src/prescriptive/*.py), as a state machine.  One run of  *)
(* a script's main() is load_data -> preprocess -> analyze -> save; each   *)
(* of these calls is one action.  A DataFrame is a record                  *)
(*   [columns |-> set of column names, rows |-> sequence of rows]          *)
(* and a row is a function from column names to cells.  Means are kept as   *)
(* exact fractions <<numerator, denominator>> and compared by cross        *)
(* multiplication; a fraction with denominator 0 is the mean of no value    *)
(* (pandas NaN).  The two orchestrators (src/src/enhanced_pipeline.py,     *)
(* src/src/run_pipeline.py), a parallel run of the five scripts' saves and  *)
(* the combiner (src/data/prescriptive_output/combine_prescriptive.py) are  *)
(* further kinds of run of the same state machine: run holds what the run   *)
(* was started with, log what it did so far, progress where it stands.      *)
(***************************************************************************)
EXTENDS Integers, Sequences, FiniteSets, TLC

VARIABLES inst, pc, files, df, agg, agg2, summary, summary2, optimal, recs, err,
          run, log, progress

vars == <<inst, pc, files, df, agg, agg2, summary, summary2, optimal, recs, err,
          run, log, progress>>

\* ------------------------------------------------------------------ bounds
\* copies of one row in an input table of a script whose threshold is 5
MaxCopies == 6
\* copies of one defective row (missing / unparseable cells) in an input table
MaxNoise == 1
\* copies of one row in an input table of the script whose threshold is 10
MaxCopies10 == 11

\* ------------------------------------------------------------- cell values
\* the float NaN of a numeric column (empty CSV cell, coerced value)
NaN == -1000000
\* the missing value of a text column
NaNStr == "nan"

\* Series.isna(), for a numeric cell
isna(v) == v = NaN

\* Series.fillna(value)
fillna(v, value) == IF v = NaN THEN value ELSE v

\* Series.fillna(value) on a text column
fillnaStr(v, value) == IF v = NaNStr THEN value ELSE v

\* ---------------------------------------------------------------- fractions
RatNaN == <<0, 0>>
RatIsNaN(a) == a[2] = 0
RatLess(a, b) == a[1] * b[2] < b[1] * a[2]
RatEq(a, b) == a[1] * b[2] = b[1] * a[2]
RatLeq(a, b) == a[1] * b[2] <= b[1] * a[2]
RatMul(a, b) == <<a[1] * b[1], a[2] * b[2]>>

\* ---------------------------------------------------------------- sequences
Range(s) == {s[i] : i \in DOMAIN s}

RECURSIVE Repeat(_, _)
Repeat(x, n) == IF n = 0 THEN <<>> ELSE <<x>> \o Repeat(x, n - 1)

RECURSIVE SeqSum(_)
SeqSum(s) == IF s = <<>> THEN 0 ELSE Head(s) + SeqSum(Tail(s))

RECURSIVE SetToSeq(_)
SetToSeq(S) ==
    IF S = {} THEN <<>>
    ELSE LET x == CHOOSE y \in S : TRUE IN <<x>> \o SetToSeq(S \ {x})

IndexOf(s, x) == CHOOSE i \in DOMAIN s : s[i] = x

\* the non-missing values of column c, in row order
Values(rows, c) ==
    LET present == SelectSeq(rows, LAMBDA r : ~isna(r[c]))
    IN  [i \in DOMAIN present |-> present[i][c]]

\* Series.mean(): NaN cells are skipped
mean(rows, c) == <<SeqSum(Values(rows, c)), Len(Values(rows, c))>>

\* Series.sum()
sum(rows, c) == SeqSum(Values(rows, c))

\* Series.count(): the number of non-missing cells
count(rows, c) == Len(Values(rows, c))

\* Series.count() on a text column
countStr(rows, c) == Len(SelectSeq(rows, LAMBDA r : r[c] # NaNStr))

\* ------------------------------------------------------------- data frames
EmptyFrame == [columns |-> {}, rows |-> <<>>]

\* DataFrame.empty
empty(d) == d.columns = {} \/ d.rows = <<>>

\* df[c] = col, col holding one value for every row
Assign(d, c, col) ==
    [columns |-> d.columns \union {c},
     rows |-> [i \in DOMAIN d.rows |-> (c :> col[i]) @@ d.rows[i]]]

\* df.columns = [f[c] for c in df.columns]
RenameColumns(d, f) ==
    [columns |-> {f[c] : c \in d.columns},
     rows |-> [i \in DOMAIN d.rows |->
                 [c \in {f[k] : k \in d.columns} |->
                    d.rows[i][CHOOSE k \in d.columns : f[k] = c]]]]

\* df.rename(columns={old: new})
Rename(d, old, new) ==
    RenameColumns(d, [c \in d.columns |-> IF c = old THEN new ELSE c])

\* str.strip().str.lower() on the column names the input files use
LowerNames ==
    [Timestamp |-> "timestamp", Traffic_Status |-> "traffic_status",
     Delay_Penalty_Cost |-> "delay_penalty_cost", Delay_Penalty |-> "delay_penalty",
     Asset_ID |-> "asset_id", Temperature |-> "temperature", Humidity |-> "humidity",
     Asset_Utilization |-> "asset_utilization", Idle_Cost |-> "idle_cost",
     Cost_per_Asset_Utilization |-> "cost_per_asset_utilization",
     Driver_ID |-> "driver_id", Waiting_Time |-> "waiting_time"]

lower(c) == IF c \in DOMAIN LowerNames THEN LowerNames[c] ELSE c

\* df.columns = df.columns.str.strip().str.lower()
LowerColumns(d) == RenameColumns(d, [c \in d.columns |-> lower(c)])

\* np.inf and -np.inf as bin edges
Inf == 999999
NegInf == -999999

\* a text cell of a numeric column ("n/a", "abc")
BadText == -1000001

\* pd.to_numeric(..., errors="coerce")
to_numeric(v) == IF v = BadText THEN NaN ELSE v

\* pd.cut(x, bins, labels, include_lowest) with the default right=True: the
\* label of the interval (bins[i], bins[i+1]] holding x; with include_lowest
\* the first interval also holds its left edge.  No interval: missing
cut(x, bins, labels, include_lowest) ==
    LET holds(i) == \/ bins[i] < x /\ x <= bins[i + 1]
                    \/ include_lowest /\ i = 1 /\ x = bins[1]
    IN  IF x = NaN \/ ~\E i \in DOMAIN labels : holds(i)
        THEN NaNStr
        ELSE labels[CHOOSE i \in DOMAIN labels : holds(i)]

\* round(x, 2) of a fraction, as a count of hundredths (half to even)
round2(a) ==
    LET n == a[1] * 100
        q == n \div a[2]
        r == n % a[2]
    IN  IF 2 * r > a[2] \/ (2 * r = a[2] /\ q % 2 = 1) THEN q + 1 ELSE q

RECURSIVE GCD(_, _)
GCD(a, b) == IF b = 0 THEN a ELSE GCD(b, a % b)

\* a fraction in lowest terms
Reduce(a) ==
    LET g == GCD(IF a[1] < 0 THEN -a[1] ELSE a[1], a[2])
    IN  IF g = 0 THEN a ELSE <<a[1] \div g, a[2] \div g>>

\* a + b
RatAdd(a, b) == Reduce(<<a[1] * b[2] + b[1] * a[2], a[2] * b[2]>>)

RECURSIVE RatSum(_)
RatSum(s) == IF s = <<>> THEN <<0, 1>> ELSE RatAdd(Head(s), RatSum(Tail(s)))

\* Series.mean() of a column of fractions
meanRat(rows, c) ==
    IF rows = <<>> THEN RatNaN
    ELSE LET t == RatSum([i \in DOMAIN rows |-> rows[i][c]])
         IN  Reduce(<<t[1], t[2] * Len(rows)>>)

\* Series.median(): the middle of the sorted non-missing values, the mean of
\* the two middle ones when their number is even; NaN when there is none
median(rows, c) ==
    LET v == SortSeq(Values(rows, c), LAMBDA x, y : x < y)
        n == Len(v)
    IN  IF n = 0 THEN NaN
        ELSE IF n % 2 = 1 THEN v[(n + 1) \div 2]
        ELSE (v[n \div 2] + v[n \div 2 + 1]) \div 2

\* a - b
RatSub(a, b) == <<a[1] * b[2] - b[1] * a[2], a[2] * b[2]>>

\* Series.idxmin() / idxmax() of column c over the rows of s, missing values
\* skipped: the first position holding the least (greatest) value
NotNaN(s, c) == {i \in DOMAIN s : ~RatIsNaN(s[i][c])}

\* =================================================================
\* traffic_optimization.py
\* =================================================================
TRAFFIC_DATA_PATH == "data/processed/asset_utilization_cost.csv"
TRAFFIC_OUTPUT_PATH == "data/processed/traffic_optimization_results.csv"

\* a timestamp cell: text that parses to a weekday and an hour, or does not
Stamp(d, h) == [valid |-> TRUE, day |-> d, hour |-> h]
Garbled == [valid |-> FALSE, day |-> "Monday", hour |-> 8]
NaT == [valid |-> FALSE, day |-> NaNStr, hour |-> NaN]

\* pd.to_datetime(..., errors="coerce")
to_datetime(t) == IF t.valid THEN t ELSE NaT
\* Series.dt.hour
dt_hour(t) == IF t.valid THEN t.hour ELSE NaN
\* Series.dt.day_name()
day_name(t) == IF t.valid THEN t.day ELSE NaNStr

\* the low five bits of the successive 32-bit outputs of numpy's MT19937
\* seeded with 42 (np.random.seed(42))
MT19937Seed42 ==
    <<6, 19, 28, 14, 10, 7, 28, 20, 6, 25, 18, 22, 10, 10, 23, 20, 3, 7, 23, 2,
      21, 20, 1, 23, 11, 29, 5, 1, 31, 27, 20, 0, 11, 25, 21, 28, 11, 24, 16, 26,
      26, 30, 9, 31, 27, 27, 15, 14, 29, 29, 14, 29, 18, 11, 22, 19, 31, 24, 2, 4,
      18, 6, 20, 8, 6, 17, 3, 24, 27, 13, 17, 25, 8, 25, 20, 1, 19, 27, 14, 27,
      6, 11, 28, 7, 14, 2, 13, 16, 3, 17, 7, 3, 1, 29, 5, 21, 9, 3, 21, 28,
      30, 17, 25, 11, 1, 9, 29, 3, 13, 30, 15, 14, 7, 13, 22, 27, 24, 29, 7, 20,
      15, 12, 17, 14, 20, 23, 25, 24, 27, 27, 27, 12, 8, 28, 14, 12, 0, 24, 6, 8,
      23, 0, 11, 7, 23, 30, 10, 18, 16, 7, 2, 2, 0, 26, 4, 9, 6, 25, 8, 27,
      6, 8, 7, 11, 1, 0, 15, 22, 22, 29, 23, 4, 2, 11, 7, 21, 26, 2, 0, 2,
      4, 14, 13, 2, 0, 4, 25, 22, 30, 13, 6, 26, 8, 14, 14, 25, 9, 27, 12, 18>>

\* np.random.choice over n items, size draws, reading the generator from
\* position pos: each output is masked to its bits below span, the smallest
\* power of two above n - 1, and rejected when it exceeds n - 1.  The result
\* is <<the draws, the next position>>
RECURSIVE random_choice(_, _, _, _)
random_choice(n, span, size, pos) ==
    IF size = 0 THEN <<<<>>, pos>>
    ELSE LET v == MT19937Seed42[pos] % span
         IN  IF v <= n - 1
             THEN LET rest == random_choice(n, span, size - 1, pos + 1)
                  IN  <<<<v>> \o rest[1], rest[2]>>
             ELSE random_choice(n, span, size, pos + 1)

WeekDays == <<"Monday", "Tuesday", "Wednesday", "Thursday", "Friday", "Saturday", "Sunday">>

\* load_data: read the CSV, normalise the column names, rename the penalty column
Traffic_load_data(f) ==
    LET d == LowerColumns(f)
    IN  IF "delay_penalty_cost" \in d.columns /\ "delay_penalty" \notin d.columns
        THEN Rename(d, "delay_penalty_cost", "delay_penalty")
        ELSE d

Traffic_preprocess(d0) ==
    LET n == Len(d0.rows)
        hours == random_choice(24, 32, n, 1)
        days == random_choice(7, 8, n, hours[2])
        I == DOMAIN d0.rows
        ts == [i \in I |-> to_datetime(d0.rows[i].timestamp)]
        d1 == IF "timestamp" \in d0.columns
              THEN Assign(Assign(Assign(d0, "timestamp", ts),
                                 "hour", [i \in I |-> fillna(dt_hour(ts[i]), 0)]),
                          "dayofweek", [i \in I |-> day_name(ts[i])])
              ELSE Assign(Assign(d0, "hour", hours[1]),
                          "dayofweek", [i \in I |-> WeekDays[days[1][i] + 1]])
        d2 == IF "traffic_status" \in d1.columns
              THEN Assign(d1, "traffic_status",
                          [i \in I |-> fillnaStr(d1.rows[i].traffic_status, "Unknown")])
              ELSE Assign(d1, "traffic_status", [i \in I |-> "Unknown"])
    IN  IF "delay_penalty" \notin d2.columns
        THEN Assign(d2, "delay_penalty", [i \in I |-> 0])
        ELSE Assign(d2, "delay_penalty",
                    [i \in I |-> fillna(d2.rows[i].delay_penalty, 0)])

\* the order of text values in a sorted groupby result
SortedDays == <<"Friday", "Monday", "Saturday", "Sunday", "Thursday", "Tuesday", "Wednesday">>
SortedStatus == <<"Clear", "Detour", "Heavy", "Unknown">>

TrafficKey(r) == <<r.dayofweek, r.hour, r.traffic_status>>

TrafficKeyLess(a, b) ==
    \/ IndexOf(SortedDays, a[1]) < IndexOf(SortedDays, b[1])
    \/ /\ a[1] = b[1]
       /\ \/ a[2] < b[2]
          \/ a[2] = b[2] /\ IndexOf(SortedStatus, a[3]) < IndexOf(SortedStatus, b[3])

\* the elements of s, each once, in the order of their first appearance
RECURSIVE FirstSeen(_)
FirstSeen(s) ==
    IF s = <<>> THEN <<>>
    ELSE <<Head(s)>> \o FirstSeen(SelectSeq(Tail(s), LAMBDA x : x # Head(s)))

\* the grouping with sort=False: the groups in the order in which their keys
\* first appear in the table
Traffic_groupby_unsorted(d) ==
    LET keyed == SelectSeq(d.rows, LAMBDA r : r.dayofweek # NaNStr)
        keys == FirstSeen([i \in DOMAIN keyed |-> TrafficKey(keyed[i])])
        group(k) == SelectSeq(keyed, LAMBDA r : TrafficKey(r) = k)
    IN  [i \in DOMAIN keys |->
            [dayofweek |-> keys[i][1], hour |-> keys[i][2], traffic_status |-> keys[i][3],
             avg_penalty |-> mean(group(keys[i]), "delay_penalty"),
             total_penalty |-> sum(group(keys[i]), "delay_penalty"),
             trips |-> IF "asset_id" \in d.columns
                       THEN countStr(group(keys[i]), "asset_id")
                       ELSE count(group(keys[i]), "delay_penalty")]]

\* df.groupby(["dayofweek", "hour", "traffic_status"]).agg(...).reset_index():
\* one row per key present, rows whose key holds a missing value left out,
\* sorted by key
Traffic_groupby(d) ==
    LET keyed == SelectSeq(d.rows, LAMBDA r : r.dayofweek # NaNStr)
        keys == SortSeq(SetToSeq({TrafficKey(r) : r \in Range(keyed)}), TrafficKeyLess)
        group(k) == SelectSeq(keyed, LAMBDA r : TrafficKey(r) = k)
    IN  [i \in DOMAIN keys |->
            [dayofweek |-> keys[i][1], hour |-> keys[i][2], traffic_status |-> keys[i][3],
             avg_penalty |-> mean(group(keys[i]), "delay_penalty"),
             total_penalty |-> sum(group(keys[i]), "delay_penalty"),
             trips |-> IF "asset_id" \in d.columns
                       THEN countStr(group(keys[i]), "asset_id")
                       ELSE count(group(keys[i]), "delay_penalty")]]

\* the filter with a strict comparison, which loses the groups of exactly
\* min_trips_threshold trips
Traffic_filter_strict(s, min_trips_threshold) ==
    SelectSeq(s, LAMBDA r : r.trips > min_trips_threshold)

\* summary[summary["trips"] >= min_trips_threshold]
Traffic_filter(s, min_trips_threshold) ==
    SelectSeq(s, LAMBDA r : r.trips >= min_trips_threshold)

\* Series.max()
MaxOf(S) == CHOOSE m \in S : \A x \in S : x <= m

\* the weighting with the largest trip count taken per weekday
Traffic_weight_per_day(s) ==
    LET M(d) == MaxOf({s[i].trips : i \in {j \in DOMAIN s : s[j].dayofweek = d}})
    IN  [i \in DOMAIN s |->
            ("weighted_penalty" :>
                RatMul(s[i].avg_penalty, <<s[i].trips, M(s[i].dayofweek)>>)) @@ s[i]]

\* summary["weighted_penalty"] = avg_penalty * (trips / trips.max())
Traffic_weight(s) ==
    LET M == MaxOf({s[i].trips : i \in DOMAIN s})
    IN  [i \in DOMAIN s |->
            ("weighted_penalty" :> RatMul(s[i].avg_penalty, <<s[i].trips, M>>)) @@ s[i]]

\* the first position, whatever it holds
idxmin_first(s, P, c) == CHOOSE i \in P : \A j \in P : i <= j

\* the last position holding the least value of column c
idxmin_last(s, P, c) ==
    CHOOSE i \in P :
        /\ \A j \in P : RatLeq(s[i][c], s[j][c])
        /\ \A j \in P : RatEq(s[j][c], s[i][c]) => j <= i

\* Series.idxmin() over the positions P of s: the first position holding the
\* least value of column c
idxmin(s, P, c) ==
    CHOOSE i \in P :
        /\ \A j \in P : RatLeq(s[i][c], s[j][c])
        /\ \A j \in P : RatEq(s[j][c], s[i][c]) => i <= j

\* Series.idxmax()
idxmax(s, P, c) ==
    CHOOSE i \in P :
        /\ \A j \in P : RatLeq(s[j][c], s[i][c])
        /\ \A j \in P : RatEq(s[j][c], s[i][c]) => i <= j

\* summary.loc[summary.groupby("dayofweek")["weighted_penalty"].idxmin()]
Traffic_select(s) ==
    LET days == SelectSeq(SortedDays, LAMBDA d : \E i \in DOMAIN s : s[i].dayofweek = d)
        of(d) == {i \in DOMAIN s : s[i].dayofweek = d}
    IN  [k \in DOMAIN days |-> s[idxmin(s, of(days[k]), "weighted_penalty")]]

\* Series.rank(ascending=True).astype(int): equal values share the average of
\* their positions, truncated
rank(s, i, c) ==
    LET less == Cardinality({j \in DOMAIN s : RatLess(s[j][c], s[i][c])})
        same == Cardinality({j \in DOMAIN s : RatEq(s[j][c], s[i][c])})
    IN  (2 * less + same + 1) \div 2

Traffic_recommend(sel) ==
    [i \in DOMAIN sel |->
        [dayofweek |-> sel[i].dayofweek, Recommended_Hour |-> sel[i].hour,
         traffic_status |-> sel[i].traffic_status,
         Min_Avg_Penalty |-> sel[i].avg_penalty,
         Trips_Analyzed |-> sel[i].trips,
         Rank |-> rank(sel, i, "avg_penalty")]]

TRAFFIC_MIN_TRIPS == 5

\* analyze_traffic_cost(df, min_trips_threshold)
analyze_traffic_cost(d, min_trips_threshold) ==
    LET grouped == Traffic_groupby(d)
        kept == Traffic_filter(grouped, min_trips_threshold)
    IN  IF "traffic_status" \notin d.columns \/ "delay_penalty" \notin d.columns
        THEN [raised |-> "KeyError", agg |-> <<>>, summary |-> <<>>,
              optimal |-> <<>>, recs |-> <<>>]
        ELSE IF kept = <<>>
        THEN [raised |-> "none", agg |-> grouped, summary |-> kept,
              optimal |-> <<>>, recs |-> <<>>]
        ELSE [raised |-> "none", agg |-> grouped, summary |-> Traffic_weight(kept),
              optimal |-> Traffic_select(Traffic_weight(kept)),
              recs |-> Traffic_recommend(Traffic_select(Traffic_weight(kept)))]

\* ------------------------------------------------- input files (traffic)
\* the rows an input file of the traffic script is made of
TrafficRow(t, s, p, a) ==
    [Timestamp |-> t, Traffic_Status |-> s, Delay_Penalty_Cost |-> p, Asset_ID |-> a]

TrafficMainRows ==
    <<TrafficRow(Stamp("Monday", 8), "Clear", 10, "Truck_1"),
      TrafficRow(Stamp("Monday", 9), "Clear", 10, "Truck_2"),
      TrafficRow(Stamp("Tuesday", 8), "Heavy", 20, "Truck_1")>>

\* rows with an unparseable timestamp, a missing penalty, a missing status and asset
TrafficNoiseRows ==
    <<TrafficRow(Garbled, "Clear", 10, "Truck_1"),
      TrafficRow(Stamp("Monday", 9), "Clear", NaN, "Truck_2"),
      TrafficRow(Stamp("Tuesday", 8), NaNStr, 20, NaNStr)>>

\* the rows of a file holding n[i] copies of main[i] and m[i] copies of noise[i]
RECURSIVE Copies(_, _)
Copies(rows, n) ==
    IF rows = <<>> THEN <<>>
    ELSE Repeat(Head(rows), Head(n)) \o Copies(Tail(rows), Tail(n))

\* the header variants of the input file: every column, and each column missing
TrafficHeaders ==
    LET all == {"Timestamp", "Traffic_Status", "Delay_Penalty_Cost", "Asset_ID"}
    IN  {all} \union {all \ {c} : c \in all}

Restrict(rows, header) == [i \in DOMAIN rows |-> [c \in header |-> rows[i][c]]]

\* a file with header h, n[i] copies of each main row, m[i] of each noise row
TrafficFile(h, n, m) ==
    [columns |-> h,
     rows |-> Restrict(Copies(TrafficMainRows, n) \o Copies(TrafficNoiseRows, m), h)]

\* every mix of rows under the full header; under a header that lacks a column,
\* each main row absent or in MaxCopies copies
TrafficFiles ==
    LET full == {"Timestamp", "Traffic_Status", "Delay_Penalty_Cost", "Asset_ID"}
    IN  {TrafficFile(full, n, m) :
            n \in [1..3 -> 0..MaxCopies], m \in [1..3 -> 0..MaxNoise]}
        \union
        {TrafficFile(h, n, m) :
            n \in [1..3 -> {0, MaxCopies}], m \in [1..3 -> 0..MaxNoise],
            h \in TrafficHeaders \ {full}}

NoFiles == [p \in {} |-> EmptyFrame]

\* ------------------------------------------------------ main() of traffic
TrafficInit ==
    /\ inst = "traffic"
    /\ pc = "load"
    /\ files \in {NoFiles} \union {TRAFFIC_DATA_PATH :> f : f \in TrafficFiles}
    /\ df = EmptyFrame
    /\ agg = <<>> /\ agg2 = <<>>
    /\ summary = <<>> /\ summary2 = <<>>
    /\ optimal = <<>>
    /\ recs = <<>>
    /\ err = "none"
    /\ run = <<>> /\ log = <<>> /\ progress = <<>>

\* df = load_data()
TrafficLoad ==
    /\ inst = "traffic" /\ pc = "load"
    /\ IF TRAFFIC_DATA_PATH \notin DOMAIN files
       THEN /\ err' = "FileNotFoundError"
            /\ pc' = "failed"
            /\ UNCHANGED df
       ELSE /\ df' = Traffic_load_data(files[TRAFFIC_DATA_PATH])
            /\ pc' = "preprocess"
            /\ UNCHANGED err
    /\ UNCHANGED <<inst, files, agg, agg2, summary, summary2, optimal, recs>>
    /\ UNCHANGED <<run, log, progress>>

\* df = preprocess(df)
TrafficPreprocess ==
    /\ inst = "traffic" /\ pc = "preprocess"
    /\ df' = Traffic_preprocess(df)
    /\ pc' = "analyze"
    /\ UNCHANGED <<inst, files, agg, agg2, summary, summary2, optimal, recs, err>>
    /\ UNCHANGED <<run, log, progress>>

\* recommendations = analyze_traffic_cost(df)
TrafficAnalyze ==
    /\ inst = "traffic" /\ pc = "analyze"
    /\ LET out == analyze_traffic_cost(df, TRAFFIC_MIN_TRIPS)
       IN  /\ agg' = out.agg
           /\ summary' = out.summary
           /\ optimal' = out.optimal
           /\ recs' = out.recs
           /\ err' = out.raised
           /\ pc' = IF out.raised = "none" THEN "save" ELSE "failed"
    /\ UNCHANGED <<inst, files, df, agg2, summary2>>
    /\ UNCHANGED <<run, log, progress>>

\* if recommendations.empty: print(...) else: save_results(recommendations)
TrafficSave ==
    /\ inst = "traffic" /\ pc = "save"
    /\ files' = IF recs = <<>> THEN files
                ELSE (TRAFFIC_OUTPUT_PATH :> recs) @@ files
    /\ pc' = "done"
    /\ UNCHANGED <<inst, df, agg, agg2, summary, summary2, optimal, recs, err>>
    /\ UNCHANGED <<run, log, progress>>

\* =================================================================
\* asset_utilization_optimization.py
\* =================================================================
ASSET_DATA_PATH == "data/processed/asset_utilization_cost.csv"
ASSET_OUTPUT_PATH == "data/processed/asset_utilization_optimization_results.csv"
ASSET_COST_SUMMARY_PATH ==
    "data/processed/asset_utilization_optimization_results_cost_summary.csv"
ASSET_SUMMARY_PATH ==
    "data/processed/asset_utilization_optimization_results_asset_summary.csv"

\* Asset_Utilization cells are held in hundredths (40 is 0.4), and so are the
\* bin edges [0, 0.4, 0.6, 0.8, 1.0, np.inf]
UtilizationBins == <<0, 40, 60, 80, 100, Inf>>
UtilizationLabels == <<"0-40%", "40-60%", "60-80%", "80-100%", "100%+">>

Asset_load_data(f) == f

AssetRequired == {"Asset_ID", "Asset_Utilization", "Cost_per_Asset_Utilization", "Idle_Cost"}

\* preprocess, once the required columns are known to be there
Asset_preprocess(d) ==
    LET numeric(c) == [i \in DOMAIN d.rows |-> fillna(to_numeric(d.rows[i][c]), 0)]
    IN  Assign(Assign(Assign(d, "Asset_Utilization", numeric("Asset_Utilization")),
                      "Cost_per_Asset_Utilization", numeric("Cost_per_Asset_Utilization")),
               "Idle_Cost", numeric("Idle_Cost"))

\* df["utilization_range"] = pd.cut(df["Asset_Utilization"], ..., include_lowest=True)
Asset_bin(d) ==
    Assign(d, "utilization_range",
           [i \in DOMAIN d.rows |->
               cut(d.rows[i].Asset_Utilization, UtilizationBins, UtilizationLabels, TRUE)])

\* df.groupby("utilization_range").agg(...).reset_index(): one row per label
\* of the categorical column, in bin order; a label no row carries has count
\* 0 and missing means
Asset_groupby(d) ==
    LET group(l) == SelectSeq(d.rows, LAMBDA r : r.utilization_range = l)
    IN  [i \in DOMAIN UtilizationLabels |->
            [utilization_range |-> UtilizationLabels[i],
             avg_cost |-> mean(group(UtilizationLabels[i]), "Cost_per_Asset_Utilization"),
             avg_utilization |-> mean(group(UtilizationLabels[i]), "Asset_Utilization"),
             samples |-> count(group(UtilizationLabels[i]), "Asset_Utilization")]]

\* cost_summary.loc[cost_summary["avg_cost"].idxmin()]
\* the range of the greatest mean cost
Asset_select_max(s) == s[idxmax(s, NotNaN(s, "avg_cost"), "avg_cost")]

Asset_select(s) == s[idxmin(s, NotNaN(s, "avg_cost"), "avg_cost")]

\* the recommendation with the current average taken over the rows that
\* fell in a utilization range only
Asset_recommend_grouped(d, opt) ==
    LET grouped == SelectSeq(d.rows, LAMBDA r : r.utilization_range # NaNStr)
        avg_cost_all == mean(grouped, "Cost_per_Asset_Utilization")
        potential_saving == RatSub(avg_cost_all, opt.avg_cost)
    IN  <<[Optimal_Utilization_Range |-> opt.utilization_range,
           Min_Avg_Cost_per_Unit |-> round2(opt.avg_cost),
           Current_Avg_Cost_per_Unit |-> round2(avg_cost_all),
           Estimated_Savings_Per_Unit |-> round2(potential_saving),
           Samples_Analyzed |-> opt.samples]>>

\* recommendations = pd.DataFrame({...}) of analyze_utilization
Asset_recommend(d, opt) ==
    LET avg_cost_all == mean(d.rows, "Cost_per_Asset_Utilization")
        potential_saving == RatSub(avg_cost_all, opt.avg_cost)
    IN  <<[Optimal_Utilization_Range |-> opt.utilization_range,
           Min_Avg_Cost_per_Unit |-> round2(opt.avg_cost),
           Current_Avg_Cost_per_Unit |-> round2(avg_cost_all),
           Estimated_Savings_Per_Unit |-> round2(potential_saving),
           Samples_Analyzed |-> opt.samples]>>

\* the asset ids of the input files, in the order of a sorted groupby
SortedAssets == <<"Truck_1", "Truck_2", "Truck_3">>

\* (avg_utilization / (avg_cost_per_util + 1e-5)).round(2), in hundredths;
\* the utilization mean is a fraction of hundredths
efficiency_score(avg_utilization, avg_cost_per_util) ==
    LET u == Reduce(avg_utilization)
        c == Reduce(avg_cost_per_util)
    IN  round2(Reduce(<<u[1] * 1000 * c[2], u[2] * (c[1] * 100000 + c[2])>>))

\* Series.quantile(qn / 100): linear interpolation between the two order
\* statistics around position (n - 1) * qn / 100
quantile(s, qn) ==
    LET sorted == SortSeq(s, LAMBDA a, b : a < b)
        pos == (Len(s) - 1) * qn
        lo == (pos \div 100) + 1
        frac == pos % 100
    IN  IF frac = 0 THEN <<sorted[lo], 1>>
        ELSE <<sorted[lo] * 100 + frac * (sorted[lo + 1] - sorted[lo]), 100>>

\* the tier that puts an underperformer first
performance_tier_under_first(score, q_low, q_high) ==
    IF RatLeq(<<score, 1>>, q_low) THEN "Underperformer"
    ELSE IF RatLeq(q_high, <<score, 1>>) THEN "High Performer"
    ELSE "Moderate Performer"

\* def performance_tier(row)
performance_tier(score, q_low, q_high) ==
    IF RatLeq(q_high, <<score, 1>>) THEN "High Performer"
    ELSE IF RatLeq(<<score, 1>>, q_low) THEN "Underperformer"
    ELSE "Moderate Performer"

\* q_low, q_high and asset_summary.apply(performance_tier, axis=1) on the
\* column of efficiency scores
Performance_Tier(scores) ==
    [i \in DOMAIN scores |->
        performance_tier(scores[i], quantile(scores, 33), quantile(scores, 67))]

\* asset_summary: one row per asset id, with its means, its trips, its
\* efficiency score and its tier
Asset_summary(d) ==
    LET ids == SelectSeq(SortedAssets,
                         LAMBDA a : \E i \in DOMAIN d.rows : d.rows[i].Asset_ID = a)
        group(a) == SelectSeq(d.rows, LAMBDA r : r.Asset_ID = a)
        base == [k \in DOMAIN ids |->
                    [Asset_ID |-> ids[k],
                     avg_utilization |-> mean(group(ids[k]), "Asset_Utilization"),
                     avg_cost_per_util |-> mean(group(ids[k]), "Cost_per_Asset_Utilization"),
                     avg_idle_cost |-> mean(group(ids[k]), "Idle_Cost"),
                     trips |-> countStr(group(ids[k]), "Asset_ID"),
                     efficiency_score |->
                         efficiency_score(mean(group(ids[k]), "Asset_Utilization"),
                                          mean(group(ids[k]), "Cost_per_Asset_Utilization"))]]
        tiers == Performance_Tier([k \in DOMAIN base |-> base[k].efficiency_score])
    IN  [k \in DOMAIN base |-> ("Performance_Tier" :> tiers[k]) @@ base[k]]

\* analyze_utilization(df): the asset summary, the binned table, the cost
\* summary, the optimal row and the recommendation; idxmin of a column of
\* missing values raises
analyze_utilization(d0) ==
    LET d == Asset_bin(d0)
        cost_summary == Asset_groupby(d)
    IN  IF NotNaN(cost_summary, "avg_cost") = {}
        THEN [raised |-> "ValueError", df |-> d, asset_summary |-> <<>>,
              agg |-> cost_summary, optimal |-> <<>>, recs |-> <<>>]
        ELSE [raised |-> "none", df |-> d, asset_summary |-> Asset_summary(d0),
              agg |-> cost_summary,
              optimal |-> <<Asset_select(cost_summary)>>,
              recs |-> Asset_recommend(d, Asset_select(cost_summary))]

\* ---------------------------------------------------- input files (asset)
AssetRow(a, u, c, i) ==
    [Asset_ID |-> a, Asset_Utilization |-> u, Cost_per_Asset_Utilization |-> c,
     Idle_Cost |-> i]

\* utilization on the edge 0.4, inside 80-100%
AssetMainRows ==
    <<AssetRow("Truck_1", 40, 10, 2), AssetRow("Truck_2", 90, 4, 1)>>

\* inside 40-60%, on the lowest edge, a text cell, below the lowest edge,
\* above 100 %
AssetNoiseRows ==
    <<AssetRow("Truck_3", 50, 8, 0), AssetRow("Truck_3", 0, 20, 0),
      AssetRow("Truck_1", BadText, 6, NaN), AssetRow("Truck_2", -10, 1, 0),
      AssetRow("Truck_2", 120, 4, 0)>>

AssetFile(h, n, m) ==
    [columns |-> h,
     rows |-> Restrict(Copies(AssetMainRows, n) \o Copies(AssetNoiseRows, m), h)]

AssetFiles ==
    {AssetFile(AssetRequired, n, m) :
        n \in [1..2 -> 0..MaxCopies], m \in [1..5 -> 0..MaxNoise]}
    \union
    {AssetFile(AssetRequired \ {c}, n, m) :
        n \in [1..2 -> {0, MaxCopies}], m \in [1..5 -> {0}], c \in AssetRequired}

\* -------------------------------------------------------- main() of asset
AssetInit ==
    /\ inst = "asset"
    /\ pc = "load"
    /\ files \in {NoFiles} \union {ASSET_DATA_PATH :> f : f \in AssetFiles}
    /\ df = EmptyFrame
    /\ agg = <<>> /\ agg2 = <<>>
    /\ summary = <<>> /\ summary2 = <<>>
    /\ optimal = <<>>
    /\ recs = <<>>
    /\ err = "none"
    /\ run = <<>> /\ log = <<>> /\ progress = <<>>

\* df = load_data()
AssetLoad ==
    /\ inst = "asset" /\ pc = "load"
    /\ IF ASSET_DATA_PATH \notin DOMAIN files
       THEN /\ err' = "FileNotFoundError"
            /\ pc' = "failed"
            /\ UNCHANGED df
       ELSE /\ df' = Asset_load_data(files[ASSET_DATA_PATH])
            /\ pc' = "preprocess"
            /\ UNCHANGED err
    /\ UNCHANGED <<inst, files, agg, agg2, summary, summary2, optimal, recs>>
    /\ UNCHANGED <<run, log, progress>>

\* df = preprocess(df): a missing required column raises KeyError
AssetPreprocess ==
    /\ inst = "asset" /\ pc = "preprocess"
    /\ IF ~(AssetRequired \subseteq df.columns)
       THEN /\ err' = "KeyError"
            /\ pc' = "failed"
            /\ UNCHANGED df
       ELSE /\ df' = Asset_preprocess(df)
            /\ pc' = "analyze"
            /\ UNCHANGED err
    /\ UNCHANGED <<inst, files, agg, agg2, summary, summary2, optimal, recs>>
    /\ UNCHANGED <<run, log, progress>>

\* asset_summary, cost_summary, recommendations = analyze_utilization(df)
AssetAnalyze ==
    /\ inst = "asset" /\ pc = "analyze"
    /\ LET out == analyze_utilization(df)
       IN  /\ df' = out.df
           /\ agg' = out.agg
           /\ agg2' = out.asset_summary
           /\ summary' = out.agg
           /\ optimal' = out.optimal
           /\ recs' = out.recs
           /\ err' = out.raised
           /\ pc' = IF out.raised = "none" THEN "save" ELSE "failed"
    /\ UNCHANGED <<inst, files, summary2>>
    /\ UNCHANGED <<run, log, progress>>

\* save_results(asset_summary, cost_summary, recommendations)
AssetSave ==
    /\ inst = "asset" /\ pc = "save"
    /\ files' = (ASSET_SUMMARY_PATH :> agg2) @@ (ASSET_COST_SUMMARY_PATH :> summary)
                 @@ (ASSET_OUTPUT_PATH :> recs) @@ files
    /\ pc' = "done"
    /\ UNCHANGED <<inst, df, agg, agg2, summary, summary2, optimal, recs, err>>
    /\ UNCHANGED <<run, log, progress>>

\* =================================================================
\* waiting_time_optimization.py (the weather analysis that minimises the
\* delay penalty)
\* =================================================================
WT_DATA_PATH == "data/processed/delay_penalty_cost.csv"
WT_OUTPUT_PATH == "data/processed/weather_optimization_results.csv"
WT_TEMP_SUMMARY_PATH == "data/processed/weather_optimization_results_temp_summary.csv"
WT_HUMIDITY_SUMMARY_PATH == "data/processed/weather_optimization_results_humidity_summary.csv"

\* temperature and humidity cells of this script are held in halves of a
\* unit (24 is 12 degrees), so that the median of two whole values is exact;
\* the bin edges are scaled likewise
Half == 2

WT_temp_bins == <<NegInf, 10 * Half, 15 * Half, 20 * Half, 25 * Half, 30 * Half, 35 * Half, Inf>>
WT_temp_labels == <<"<10C", "10-15C", "15-20C", "20-25C", "25-30C", "30-35C", ">35C">>
WT_humidity_bins ==
    <<0, 20 * Half, 30 * Half, 40 * Half, 50 * Half, 60 * Half, 70 * Half, 80 * Half, Inf>>
WT_humidity_labels ==
    <<"0-20%", "20-30%", "30-40%", "40-50%", "50-60%", "60-70%", "70-80%", "80%+">>

WT_load_data(f) ==
    LET d == LowerColumns(f)
        d1 == IF "delay_penalty_cost" \in d.columns /\ "delay_penalty" \notin d.columns
              THEN Rename(d, "delay_penalty_cost", "delay_penalty") ELSE d
        d2 == IF "temperature_c" \in d1.columns /\ "temperature" \notin d1.columns
              THEN Rename(d1, "temperature_c", "temperature") ELSE d1
    IN  IF "humidity_percent" \in d2.columns /\ "humidity" \notin d2.columns
        THEN Rename(d2, "humidity_percent", "humidity") ELSE d2

WT_required == {"temperature", "humidity", "delay_penalty"}

\* Series.median() of a column read from the file raises TypeError when the
\* column holds text
HasText(d, c) == \E i \in DOMAIN d.rows : d.rows[i][c] = BadText

\* preprocess, once the required columns are there and hold no text
WT_preprocess(d0) ==
    LET I == DOMAIN d0.rows
        tmed == median(d0.rows, "temperature")
        d1 == Assign(d0, "temperature",
                     [i \in I |-> fillna(to_numeric(d0.rows[i].temperature), tmed)])
        hmed == median(d1.rows, "humidity")
        d2 == Assign(d1, "humidity",
                     [i \in I |-> fillna(to_numeric(d1.rows[i].humidity), hmed)])
        d3 == Assign(d2, "delay_penalty",
                     [i \in I |-> fillna(to_numeric(d2.rows[i].delay_penalty), 0)])
        trange == [i \in I |->
                      cut(d3.rows[i].temperature, WT_temp_bins, WT_temp_labels, FALSE)]
        hrange == [i \in I |->
                      cut(d3.rows[i].humidity, WT_humidity_bins, WT_humidity_labels, FALSE)]
    IN  Assign(Assign(d3, "temp_range", trange), "humidity_range", hrange)

\* df.groupby(c).agg(avg_penalty=mean, count=count).reset_index() on the
\* categorical column c: one row per label, in bin order
WT_groupby(d, c, labels) ==
    LET group(l) == SelectSeq(d.rows, LAMBDA r : r[c] = l)
    IN  [i \in DOMAIN labels |->
            [range |-> labels[i],
             avg_penalty |-> mean(group(labels[i]), "delay_penalty"),
             count |-> count(group(labels[i]), "delay_penalty")]]

\* the filter that removes the empty groups only
WT_filter_nonempty(s, min_records) == SelectSeq(s, LAMBDA r : r.count >= 1)

\* temp_summary[temp_summary["count"] >= min_records]
WT_filter(s, min_records) == SelectSeq(s, LAMBDA r : r.count >= min_records)

\* temp_summary.loc[temp_summary["avg_penalty"].idxmin()]
WT_select(s) == s[idxmin(s, NotNaN(s, "avg_penalty"), "avg_penalty")]

\* (a + b) / 2
RatHalfSum(a, b) == <<a[1] * b[2] + b[1] * a[2], 2 * a[2] * b[2]>>

\* the recommendation with the minimum taken as the mean penalty of the
\* records that lie in both optimal ranges
WT_recommend_joint(d, optimal_temp, optimal_humidity) ==
    LET current_avg_penalty == mean(d.rows, "delay_penalty")
        joint == SelectSeq(d.rows, LAMBDA r : /\ r.temp_range = optimal_temp.range
                                              /\ r.humidity_range = optimal_humidity.range)
        min_avg_penalty == IF joint = <<>> THEN <<0, 1>> ELSE mean(joint, "delay_penalty")
        estimated_savings == RatSub(current_avg_penalty, min_avg_penalty)
    IN  <<[Optimal_Temperature_Range |-> optimal_temp.range,
           Optimal_Humidity_Range |-> optimal_humidity.range,
           Min_Avg_Penalty |-> round2(min_avg_penalty),
           Current_Avg_Penalty |-> round2(current_avg_penalty),
           Estimated_Savings_Per_Trip |-> round2(estimated_savings),
           Temp_Records_Analyzed |-> optimal_temp.count,
           Humidity_Records_Analyzed |-> optimal_humidity.count]>>

\* recommendations = pd.DataFrame({...}) of analyze_weather_effect
WT_recommend(d, optimal_temp, optimal_humidity) ==
    LET current_avg_penalty == mean(d.rows, "delay_penalty")
        min_avg_penalty == RatHalfSum(optimal_temp.avg_penalty, optimal_humidity.avg_penalty)
        estimated_savings == RatSub(current_avg_penalty, min_avg_penalty)
    IN  <<[Optimal_Temperature_Range |-> optimal_temp.range,
           Optimal_Humidity_Range |-> optimal_humidity.range,
           Min_Avg_Penalty |-> round2(min_avg_penalty),
           Current_Avg_Penalty |-> round2(current_avg_penalty),
           Estimated_Savings_Per_Trip |-> round2(estimated_savings),
           Temp_Records_Analyzed |-> optimal_temp.count,
           Humidity_Records_Analyzed |-> optimal_humidity.count]>>

WT_MIN_RECORDS == 10

\* analyze_weather_effect(df, min_records)
analyze_weather_effect(d, min_records) ==
    LET tgrouped == WT_groupby(d, "temp_range", WT_temp_labels)
        hgrouped == WT_groupby(d, "humidity_range", WT_humidity_labels)
        temp_summary == WT_filter(tgrouped, min_records)
        humidity_summary == WT_filter(hgrouped, min_records)
    IN  IF temp_summary = <<>> \/ humidity_summary = <<>>
        THEN [agg |-> tgrouped, agg2 |-> hgrouped,
              summary |-> temp_summary, summary2 |-> humidity_summary,
              optimal |-> <<>>, recs |-> <<>>]
        ELSE [agg |-> tgrouped, agg2 |-> hgrouped,
              summary |-> temp_summary, summary2 |-> humidity_summary,
              optimal |-> <<WT_select(temp_summary), WT_select(humidity_summary)>>,
              recs |-> WT_recommend(d, WT_select(temp_summary),
                                    WT_select(humidity_summary))]

\* --------------------------------------------- input files (waiting time)
WTRow(t, h, p) == [Temperature |-> t, Humidity |-> h, Delay_Penalty_Cost |-> p]

\* 12 degrees and 25 %; 15 degrees (an edge) and 35 %; 22 degrees and 30 % (an edge)
WTMainRows ==
    <<WTRow(12 * Half, 25 * Half, 10), WTRow(15 * Half, 35 * Half, 30),
      WTRow(22 * Half, 30 * Half, 20)>>

\* empty cells; humidity 0, the lowest edge; a text cell in the temperature
WTNoiseRows ==
    <<WTRow(NaN, NaN, NaN), WTRow(22 * Half, 0, 5), WTRow(BadText, 25 * Half, 10)>>

WTFile(h, n, m) ==
    [columns |-> h,
     rows |-> Restrict(Copies(WTMainRows, n) \o Copies(WTNoiseRows, m), h)]

WTFiles ==
    LET full == {"Temperature", "Humidity", "Delay_Penalty_Cost"}
    IN  {WTFile(full, n \o <<k>>, m) :
            n \in [1..2 -> 0..MaxCopies10], k \in {0, WT_MIN_RECORDS},
            m \in [1..3 -> 0..MaxNoise]}
        \union
        {WTFile(full \ {c}, n, m) :
            n \in [1..3 -> {0, MaxCopies10}], m \in [1..3 -> {0}], c \in full}

\* ------------------------------------------------- main() of waiting time
WTInit ==
    /\ inst = "waiting_time"
    /\ pc = "load"
    /\ files \in {NoFiles} \union {WT_DATA_PATH :> f : f \in WTFiles}
    /\ df = EmptyFrame
    /\ agg = <<>> /\ agg2 = <<>>
    /\ summary = <<>> /\ summary2 = <<>>
    /\ optimal = <<>>
    /\ recs = <<>>
    /\ err = "none"
    /\ run = <<>> /\ log = <<>> /\ progress = <<>>

\* df = load_data()
WTLoad ==
    /\ inst = "waiting_time" /\ pc = "load"
    /\ IF WT_DATA_PATH \notin DOMAIN files
       THEN /\ err' = "FileNotFoundError"
            /\ pc' = "failed"
            /\ UNCHANGED df
       ELSE /\ df' = WT_load_data(files[WT_DATA_PATH])
            /\ pc' = "preprocess"
            /\ UNCHANGED err
    /\ UNCHANGED <<inst, files, agg, agg2, summary, summary2, optimal, recs>>
    /\ UNCHANGED <<run, log, progress>>

\* df = preprocess(df): a missing required column raises KeyError, the median
\* of a column holding text raises TypeError
WTPreprocess ==
    /\ inst = "waiting_time" /\ pc = "preprocess"
    /\ IF ~(WT_required \subseteq df.columns)
       THEN /\ err' = "KeyError"
            /\ pc' = "failed"
            /\ UNCHANGED df
       ELSE IF HasText(df, "temperature") \/ HasText(df, "humidity")
       THEN /\ err' = "TypeError"
            /\ pc' = "failed"
            /\ UNCHANGED df
       ELSE /\ df' = WT_preprocess(df)
            /\ pc' = "analyze"
            /\ UNCHANGED err
    /\ UNCHANGED <<inst, files, agg, agg2, summary, summary2, optimal, recs>>
    /\ UNCHANGED <<run, log, progress>>

\* recommendations, temp_summary, humidity_summary = analyze_weather_effect(df)
WTAnalyze ==
    /\ inst = "waiting_time" /\ pc = "analyze"
    /\ LET out == analyze_weather_effect(df, WT_MIN_RECORDS)
       IN  /\ agg' = out.agg
           /\ agg2' = out.agg2
           /\ summary' = out.summary
           /\ summary2' = out.summary2
           /\ optimal' = out.optimal
           /\ recs' = out.recs
    /\ pc' = "save"
    /\ UNCHANGED <<inst, files, df, err>>
    /\ UNCHANGED <<run, log, progress>>

\* main() without the test for an empty recommendation
WTSave_unguarded ==
    /\ inst = "waiting_time" /\ pc = "save"
    /\ files' = (WT_OUTPUT_PATH :> recs) @@ (WT_TEMP_SUMMARY_PATH :> summary)
                 @@ (WT_HUMIDITY_SUMMARY_PATH :> summary2) @@ files
    /\ pc' = "done"
    /\ UNCHANGED <<inst, df, agg, agg2, summary, summary2, optimal, recs, err>>
    /\ UNCHANGED <<run, log, progress>>

\* if recommendations.empty: print(...) else: save_results(...)
WTSave ==
    /\ inst = "waiting_time" /\ pc = "save"
    /\ files' = IF recs = <<>> THEN files
                ELSE (WT_OUTPUT_PATH :> recs) @@ (WT_TEMP_SUMMARY_PATH :> summary)
                     @@ (WT_HUMIDITY_SUMMARY_PATH :> summary2) @@ files
    /\ pc' = "done"
    /\ UNCHANGED <<inst, df, agg, agg2, summary, summary2, optimal, recs, err>>
    /\ UNCHANGED <<run, log, progress>>

\* =================================================================
\* weather_optimization.py (the weather analysis that maximises efficiency)
\* =================================================================
WEATHER_DATA_PATH == "data/processed/asset_utilization_cost.csv"
WEATHER_OUTPUT_PATH == "data/processed/weather_optimization_results.csv"
WEATHER_DETAILS_PATH == "data/processed/weather_optimization_results_details.csv"

Weather_temp_bins == <<NegInf, 20, 25, 30, 35, Inf>>
Weather_temp_labels == <<"<20C", "20-25C", "25-30C", "30-35C", ">35C">>
Weather_hum_bins == <<NegInf, 40, 60, 80, Inf>>
Weather_hum_labels == <<"<40%", "40-60%", "60-80%", ">80%">>

Weather_load_data(f) == LowerColumns(f)

Weather_numeric ==
    <<"temperature", "humidity", "asset_utilization", "idle_cost",
      "cost_per_asset_utilization">>

\* for col in [...]: a missing column is filled with zeros, then every cell
\* is coerced to a number and a missing one replaced by 0
RECURSIVE Weather_coerce(_, _)
Weather_coerce(d, cols) ==
    IF cols = <<>> THEN d
    ELSE LET c == Head(cols)
             col == [i \in DOMAIN d.rows |->
                        IF c \in d.columns THEN fillna(to_numeric(d.rows[i][c]), 0)
                        ELSE 0]
         IN  Weather_coerce(Assign(d, c, col), Tail(cols))

\* (asset_utilization / (cost_per_asset_utilization + 1)) * (1 / (idle_cost + 1)) * 100
weather_efficiency(r) ==
    Reduce(<<r.asset_utilization * 100,
             (r.cost_per_asset_utilization + 1) * (r.idle_cost + 1)>>)

Weather_preprocess(d0) ==
    LET d1 == Weather_coerce(d0, Weather_numeric)
        I == DOMAIN d1.rows
        trange == [i \in I |->
                      cut(d1.rows[i].temperature, Weather_temp_bins, Weather_temp_labels, FALSE)]
        hrange == [i \in I |->
                      cut(d1.rows[i].humidity, Weather_hum_bins, Weather_hum_labels, FALSE)]
    IN  Assign(Assign(Assign(d1, "temp_range", trange), "humidity_range", hrange),
               "weather_efficiency", [i \in I |-> weather_efficiency(d1.rows[i])])

\* the pairs of labels in the order of a groupby on the two categorical columns
Weather_keys ==
    [k \in 1..(Len(Weather_temp_labels) * Len(Weather_hum_labels)) |->
        <<Weather_temp_labels[((k - 1) \div Len(Weather_hum_labels)) + 1],
          Weather_hum_labels[((k - 1) % Len(Weather_hum_labels)) + 1]>>]

\* df.groupby(["temp_range", "humidity_range"]).agg(...).reset_index()
Weather_groupby(d) ==
    LET group(k) ==
            SelectSeq(d.rows, LAMBDA r : r.temp_range = k[1] /\ r.humidity_range = k[2])
    IN  [i \in DOMAIN Weather_keys |->
            [temp_range |-> Weather_keys[i][1], humidity_range |-> Weather_keys[i][2],
             avg_efficiency |-> meanRat(group(Weather_keys[i]), "weather_efficiency"),
             avg_cost |-> mean(group(Weather_keys[i]), "cost_per_asset_utilization"),
             avg_utilization |-> mean(group(Weather_keys[i]), "asset_utilization"),
             trips |-> countStr(group(Weather_keys[i]), "asset_id")]]

\* summary[summary["trips"] >= min_trips_threshold]
Weather_filter(s, min_trips_threshold) ==
    SelectSeq(s, LAMBDA r : r.trips >= min_trips_threshold)

\* summary.loc[summary["avg_efficiency"].idxmax()]
Weather_select(s) == s[idxmax(s, NotNaN(s, "avg_efficiency"), "avg_efficiency")]

Weather_recommend(d, optimal_row) ==
    LET optimal_eff == optimal_row.avg_efficiency
        current_eff == meanRat(d.rows, "weather_efficiency")
        potential_gain == round2(RatSub(optimal_eff, current_eff))
    IN  <<[Optimal_Temp_Range |-> optimal_row.temp_range,
           Optimal_Humidity_Range |-> optimal_row.humidity_range,
           Optimal_Avg_Efficiency |-> round2(optimal_eff),
           Current_Avg_Efficiency |-> round2(current_eff),
           Estimated_Improvement |-> potential_gain,
           Trips_Analyzed |-> optimal_row.trips]>>

WEATHER_MIN_TRIPS == 5

\* analyze_weather(df, min_trips_threshold); the aggregation of a column that
\* is not there raises KeyError
analyze_weather(d, min_trips_threshold) ==
    LET grouped == Weather_groupby(d)
        kept == Weather_filter(grouped, min_trips_threshold)
    IN  IF "asset_id" \notin d.columns
        THEN [raised |-> "KeyError", agg |-> <<>>, summary |-> <<>>,
              optimal |-> <<>>, recs |-> <<>>]
        ELSE IF kept = <<>>
        THEN [raised |-> "none", agg |-> grouped, summary |-> <<>>,
              optimal |-> <<>>, recs |-> <<>>]
        ELSE [raised |-> "none", agg |-> grouped, summary |-> kept,
              optimal |-> <<Weather_select(kept)>>,
              recs |-> Weather_recommend(d, Weather_select(kept))]

\* -------------------------------------------------- input files (weather)
WeatherRow(t, h, u, i, c, a) ==
    [Temperature |-> t, Humidity |-> h, Asset_Utilization |-> u, Idle_Cost |-> i,
     Cost_per_Asset_Utilization |-> c, Asset_ID |-> a]

\* 22 degrees; 25 degrees (an edge); 32 degrees
WeatherMainRows ==
    <<WeatherRow(22, 50, 80, 0, 1, "Truck_1"), WeatherRow(25, 50, 60, 1, 0, "Truck_2"),
      WeatherRow(32, 70, 90, 0, 0, "Truck_1")>>

\* empty and text cells; no asset id
WeatherNoiseRows ==
    <<WeatherRow(NaN, BadText, 70, NaN, 0, "Truck_2"),
      WeatherRow(32, 70, 50, 0, 0, NaNStr)>>

WeatherFile(h, n, m) ==
    [columns |-> h,
     rows |-> Restrict(Copies(WeatherMainRows, n) \o Copies(WeatherNoiseRows, m), h)]

WeatherFiles ==
    LET full == {"Temperature", "Humidity", "Asset_Utilization", "Idle_Cost",
                 "Cost_per_Asset_Utilization", "Asset_ID"}
    IN  {WeatherFile(full, n, m) :
            n \in [1..3 -> 0..MaxCopies], m \in [1..2 -> 0..MaxNoise]}
        \union
        {WeatherFile(full \ {c}, n, m) :
            n \in [1..3 -> {0, MaxCopies}], m \in [1..2 -> {0}], c \in full}

\* ------------------------------------------------------ main() of weather
WeatherInit ==
    /\ inst = "weather"
    /\ pc = "load"
    /\ files \in {NoFiles} \union {WEATHER_DATA_PATH :> f : f \in WeatherFiles}
    /\ df = EmptyFrame
    /\ agg = <<>> /\ agg2 = <<>>
    /\ summary = <<>> /\ summary2 = <<>>
    /\ optimal = <<>>
    /\ recs = <<>>
    /\ err = "none"
    /\ run = <<>> /\ log = <<>> /\ progress = <<>>

\* df = load_data()
WeatherLoad ==
    /\ inst = "weather" /\ pc = "load"
    /\ IF WEATHER_DATA_PATH \notin DOMAIN files
       THEN /\ err' = "FileNotFoundError"
            /\ pc' = "failed"
            /\ UNCHANGED df
       ELSE /\ df' = Weather_load_data(files[WEATHER_DATA_PATH])
            /\ pc' = "preprocess"
            /\ UNCHANGED err
    /\ UNCHANGED <<inst, files, agg, agg2, summary, summary2, optimal, recs>>
    /\ UNCHANGED <<run, log, progress>>

\* df = preprocess(df)
WeatherPreprocess ==
    /\ inst = "weather" /\ pc = "preprocess"
    /\ df' = Weather_preprocess(df)
    /\ pc' = "analyze"
    /\ UNCHANGED <<inst, files, agg, agg2, summary, summary2, optimal, recs, err>>
    /\ UNCHANGED <<run, log, progress>>

\* recommendations, summary = analyze_weather(df)
WeatherAnalyze ==
    /\ inst = "weather" /\ pc = "analyze"
    /\ LET out == analyze_weather(df, WEATHER_MIN_TRIPS)
       IN  /\ agg' = out.agg
           /\ summary' = out.summary
           /\ optimal' = out.optimal
           /\ recs' = out.recs
           /\ err' = out.raised
           /\ pc' = IF out.raised = "none" THEN "save" ELSE "failed"
    /\ UNCHANGED <<inst, files, df, agg2, summary2>>
    /\ UNCHANGED <<run, log, progress>>

\* if recommendations.empty: print(...) else: save_results(recommendations, summary)
WeatherSave ==
    /\ inst = "weather" /\ pc = "save"
    /\ files' = IF recs = <<>> THEN files
                ELSE (WEATHER_OUTPUT_PATH :> recs) @@ (WEATHER_DETAILS_PATH :> summary)
                     @@ files
    /\ pc' = "done"
    /\ UNCHANGED <<inst, df, agg, agg2, summary, summary2, optimal, recs, err>>
    /\ UNCHANGED <<run, log, progress>>

\* =================================================================
\* driver_performance_optimization.py
\* =================================================================
DRIVER_DATA_PATH == "data/processed/asset_utilization_cost.csv"
DRIVER_OUTPUT_SUMMARY == "data/processed/driver_performance_summary.csv"
DRIVER_OUTPUT_INSIGHTS == "data/processed/driver_performance_insights.csv"

\* the number of synthetic driver ids the model draws from; the script draws
\* from the ten ids D_0 .. D_9
MaxSynthetic == 2

\* [f"D_{i}" for i in range(10)]
DriverNames == <<"D_0", "D_1", "D_2", "D_3", "D_4", "D_5", "D_6", "D_7", "D_8", "D_9">>

SyntheticDrivers == {DriverNames[i] : i \in 1..MaxSynthetic}

\* load_data: the tables it can return.  Without a driver_id column every
\* row gets an id drawn by np.random.choice, which nothing seeds: any
\* assignment of ids to the rows can be drawn
Driver_load_data(f) ==
    LET d == LowerColumns(f)
    IN  IF "driver_id" \in d.columns THEN {d}
        ELSE {Assign(d, "driver_id", ids) : ids \in [DOMAIN d.rows -> SyntheticDrivers]}

Driver_required == <<"asset_utilization", "waiting_time", "idle_cost">>

\* a missing required column is filled with zeros; every cell of the
\* required columns is coerced to a number, a missing one replaced by 0
RECURSIVE Driver_coerce(_, _)
Driver_coerce(d, cols) ==
    IF cols = <<>> THEN d
    ELSE LET c == Head(cols)
             col == [i \in DOMAIN d.rows |->
                        IF c \in d.columns THEN fillna(to_numeric(d.rows[i][c]), 0)
                        ELSE 0]
         IN  Driver_coerce(Assign(d, c, col), Tail(cols))

Sign(x) == IF x < 0 THEN -1 ELSE 1

\* (asset_utilization / (waiting_time + 1)) * (1 / (idle_cost + 1)) * 100 in
\* float arithmetic: 0 / 0 and 0 * inf are NaN, x / 0 is an infinity
driver_efficiency(r) ==
    LET w == r.waiting_time + 1
        i == r.idle_cost + 1
    IN  IF w * i = 0
        THEN IF r.asset_utilization = 0 THEN RatNaN
             ELSE <<Sign(r.asset_utilization) * Inf
                      * (IF w = 0 THEN 1 ELSE Sign(w)) * (IF i = 0 THEN 1 ELSE Sign(i)), 1>>
        ELSE Reduce(<<r.asset_utilization * 100 * Sign(w * i), w * i * Sign(w * i)>>)

Driver_preprocess(d0) ==
    LET d1 == Driver_coerce(d0, Driver_required)
    IN  Assign(d1, "efficiency", [i \in DOMAIN d1.rows |-> driver_efficiency(d1.rows[i])])

\* Series.mean() of a column of fractions, NaN cells skipped
meanSkipNaN(rows, c) == meanRat(SelectSeq(rows, LAMBDA r : ~RatIsNaN(r[c])), c)

\* df.groupby("driver_id").agg(...).reset_index(): one row per driver id
\* present, sorted by id
Driver_groupby(d) ==
    LET ids == SelectSeq(DriverNames,
                         LAMBDA a : \E i \in DOMAIN d.rows : d.rows[i].driver_id = a)
        group(a) == SelectSeq(d.rows, LAMBDA r : r.driver_id = a)
    IN  [k \in DOMAIN ids |->
            [driver_id |-> ids[k],
             avg_efficiency |-> meanSkipNaN(group(ids[k]), "efficiency"),
             avg_asset_utilization |-> mean(group(ids[k]), "asset_utilization"),
             avg_waiting_time |-> mean(group(ids[k]), "waiting_time"),
             avg_idle_cost |-> mean(group(ids[k]), "idle_cost"),
             trips |-> countStr(group(ids[k]), "driver_id")]]

\* a comparison of floats, false when either side is NaN
GreaterEq(a, b) == ~RatIsNaN(a) /\ ~RatIsNaN(b) /\ RatLeq(b, a)

\* the conditions list of analyze_driver_performance for one driver
Driver_conditions(avg_efficiency, mean_eff) ==
    <<GreaterEq(avg_efficiency, RatMul(mean_eff, <<11, 10>>)),
      GreaterEq(avg_efficiency, RatMul(mean_eff, <<9, 10>>)),
      ~RatIsNaN(avg_efficiency) /\ ~RatIsNaN(mean_eff)
          /\ RatLess(avg_efficiency, RatMul(mean_eff, <<9, 10>>))>>

Driver_labels == <<"High Performer", "Average", "Underperformer">>

\* np.select(conditions, labels, default): the label of the first condition
\* that holds, the default when none does
np_select(conditions, labels, default) ==
    IF \E i \in DOMAIN conditions : conditions[i]
    THEN labels[CHOOSE i \in DOMAIN conditions :
                    conditions[i] /\ \A j \in DOMAIN conditions : conditions[j] => i <= j]
    ELSE default

\* round(x, 2) of a float that may be NaN
round2NaN(a) == IF RatIsNaN(a) THEN NaN ELSE round2(a)

\* analyze_driver_performance(df): the summary with its tiers and the insights
analyze_driver_performance(d) ==
    LET grouped == Driver_groupby(d)
        mean_eff == meanSkipNaN(grouped, "avg_efficiency")
        summary_ ==
            [k \in DOMAIN grouped |->
                ("Performance_Tier" :>
                    np_select(Driver_conditions(grouped[k].avg_efficiency, mean_eff),
                              Driver_labels, "Unclassified")) @@ grouped[k]]
        optimal_eff == round2NaN(mean_eff)
        low_perf == SelectSeq(summary_, LAMBDA r : r.Performance_Tier = "Underperformer")
        est_improvement ==
            IF low_perf = <<>> THEN 0
            ELSE round2(RatSub(<<optimal_eff, 100>>, meanSkipNaN(low_perf, "avg_efficiency")))
    IN  [summary |-> summary_,
         insights |-> <<[Optimal_Avg_Efficiency |-> optimal_eff,
                         Estimated_Improvement_If_Low_Reaches_Optimal |-> est_improvement,
                         Low_Performers_Count |-> Len(low_perf),
                         Drivers_Analyzed |-> Len(summary_)]>>]

\* --------------------------------------------------- input files (driver)
DriverRow(d, u, w, i) ==
    [Driver_ID |-> d, Asset_Utilization |-> u, Waiting_Time |-> w, Idle_Cost |-> i]

\* efficiencies 4000, 1500 and 3300
DriverMainRows ==
    <<DriverRow("D_0", 80, 1, 0), DriverRow("D_1", 60, 1, 1), DriverRow("D_1", 66, 1, 0)>>

\* utilization 0 with waiting time -1 (efficiency 0 / 0); a text cell and an
\* empty cell
DriverNoiseRows ==
    <<DriverRow("D_2", 0, -1, 0), DriverRow("D_2", BadText, 1, NaN)>>

MaxDriverCopies == 2

DriverFile(h, n, m) ==
    [columns |-> h,
     rows |-> Restrict(Copies(DriverMainRows, n) \o Copies(DriverNoiseRows, m), h)]

\* every mix of rows under the full header; under a header that lacks a
\* column, each main row absent or present once
DriverFiles ==
    LET full == {"Driver_ID", "Asset_Utilization", "Waiting_Time", "Idle_Cost"}
    IN  {DriverFile(full, n, m) :
            n \in [1..3 -> 0..MaxDriverCopies], m \in [1..2 -> 0..MaxNoise]}
        \union
        {DriverFile(full \ {c}, n, m) :
            n \in [1..3 -> {0, 1}], m \in [1..2 -> {0}], c \in full}

\* ------------------------------------------------------- main() of driver
DriverInit ==
    /\ inst = "driver"
    /\ pc = "load"
    /\ files \in {NoFiles} \union {DRIVER_DATA_PATH :> f : f \in DriverFiles}
    /\ df = EmptyFrame
    /\ agg = <<>> /\ agg2 = <<>>
    /\ summary = <<>> /\ summary2 = <<>>
    /\ optimal = <<>>
    /\ recs = <<>>
    /\ err = "none"
    /\ run = <<>> /\ log = <<>> /\ progress = <<>>

\* df = load_data()
DriverLoad ==
    /\ inst = "driver" /\ pc = "load"
    /\ IF DRIVER_DATA_PATH \notin DOMAIN files
       THEN /\ err' = "FileNotFoundError"
            /\ pc' = "failed"
            /\ UNCHANGED df
       ELSE /\ df' \in Driver_load_data(files[DRIVER_DATA_PATH])
            /\ pc' = "preprocess"
            /\ UNCHANGED err
    /\ UNCHANGED <<inst, files, agg, agg2, summary, summary2, optimal, recs>>
    /\ UNCHANGED <<run, log, progress>>

\* df = preprocess(df): nothing raises
DriverPreprocess ==
    /\ inst = "driver" /\ pc = "preprocess"
    /\ df' = Driver_preprocess(df)
    /\ pc' = "analyze"
    /\ UNCHANGED <<inst, files, agg, agg2, summary, summary2, optimal, recs, err>>
    /\ UNCHANGED <<run, log, progress>>

\* summary, insights = analyze_driver_performance(df)
DriverAnalyze ==
    /\ inst = "driver" /\ pc = "analyze"
    /\ LET out == analyze_driver_performance(df)
       IN  /\ agg' = out.summary
           /\ summary' = out.summary
           /\ recs' = out.insights
    /\ pc' = "save"
    /\ UNCHANGED <<inst, files, df, agg2, summary2, optimal, err>>
    /\ UNCHANGED <<run, log, progress>>

\* save_results(summary, insights)
DriverSave ==
    /\ inst = "driver" /\ pc = "save"
    /\ files' = (DRIVER_OUTPUT_SUMMARY :> summary) @@ (DRIVER_OUTPUT_INSIGHTS :> recs)
                 @@ files
    /\ pc' = "done"
    /\ UNCHANGED <<inst, df, agg, agg2, summary, summary2, optimal, recs, err>>
    /\ UNCHANGED <<run, log, progress>>

\* =================================================================
\* enhanced_pipeline.py and run_pipeline.py
\* =================================================================
CLEANED_PATH == "data/processed/cleaned_logistics_data.csv"
FEATURES_PATH == "data/processed/logistics_features.csv"
INVENTORY_PATH == "data/processed/inventory_holding_cost.csv"
REPORT_PATH == "data/reports/summary_report.txt"
VISUALS == {"data/visuals/scatter_utilization_vs_fuel.png",
            "data/visuals/scatter_waiting_vs_fuel.png",
            "data/visuals/bar_traffic_vs_fuel.png"}

\* STAGES of enhanced_pipeline.py, every step by its script
STAGES ==
    [analysis |-> <<"src/data_visualisation.py", "src/scripts/fuel_cost_estimate.py",
                    "src/scripts/asset_utilization.py",
                    "src/scripts/handling_cost_estimate.py",
                    "src/scripts/inventory_holding_cost.py",
                    "src/scripts/delay_penalty.py", "src/report_generator.py">>,
     prescriptive |-> <<"src/prescriptive/traffic_optimization.py",
                        "src/prescriptive/waiting_time_optimization.py",
                        "src/prescriptive/asset_utilization_optimization.py",
                        "src/prescriptive/weather_optimization.py",
                        "src/prescriptive/driver_performance_optimization.py">>]

\* STEPS of run_pipeline.py
STEPS ==
    <<"src/data_visualisation.py", "src/scripts/fuel_cost_estimate.py",
      "src/scripts/asset_utilization.py", "src/scripts/handling_cost_estimate.py",
      "src/report_generator.py">>

\* run_pipeline(stage): the list the loop goes through; an unknown stage has none
stages_to_run(stage) ==
    IF stage = "all" THEN STAGES.analysis \o STAGES.prescriptive
    ELSE IF stage \in DOMAIN STAGES THEN STAGES[stage]
    ELSE <<>>

\* the files a script opens for reading
Reads(script) ==
    CASE script = "src/scripts/fuel_cost_estimate.py" -> {CLEANED_PATH}
      [] script \in {"src/data_visualisation.py", "src/scripts/asset_utilization.py",
                     "src/scripts/handling_cost_estimate.py", "src/report_generator.py"}
           -> {FEATURES_PATH}
      [] script \in {"src/scripts/inventory_holding_cost.py", "src/scripts/delay_penalty.py"}
           -> {ASSET_DATA_PATH}
      [] script = "src/prescriptive/waiting_time_optimization.py" -> {WT_DATA_PATH}
      [] OTHER -> {ASSET_DATA_PATH}

\* the files each prescriptive script writes, in the order of its save_results
SaveOrder ==
    [traffic |-> <<TRAFFIC_OUTPUT_PATH>>,
     waiting_time |-> <<WT_OUTPUT_PATH, WT_TEMP_SUMMARY_PATH, WT_HUMIDITY_SUMMARY_PATH>>,
     asset |-> <<ASSET_SUMMARY_PATH, ASSET_COST_SUMMARY_PATH, ASSET_OUTPUT_PATH>>,
     weather |-> <<WEATHER_OUTPUT_PATH, WEATHER_DETAILS_PATH>>,
     driver |-> <<DRIVER_OUTPUT_SUMMARY, DRIVER_OUTPUT_INSIGHTS>>]

\* the files a script writes when it runs to its end with a result
Writes(script) ==
    CASE script = "src/data_visualisation.py" -> VISUALS
      [] script \in {"src/scripts/fuel_cost_estimate.py",
                     "src/scripts/handling_cost_estimate.py"} -> {FEATURES_PATH}
      [] script = "src/scripts/asset_utilization.py" -> {ASSET_DATA_PATH}
      [] script = "src/scripts/inventory_holding_cost.py" -> {INVENTORY_PATH}
      [] script = "src/scripts/delay_penalty.py" -> {WT_DATA_PATH}
      [] script = "src/report_generator.py" -> {REPORT_PATH}
      [] script = "src/prescriptive/traffic_optimization.py" -> Range(SaveOrder.traffic)
      [] script = "src/prescriptive/waiting_time_optimization.py"
           -> Range(SaveOrder.waiting_time)
      [] script = "src/prescriptive/asset_utilization_optimization.py"
           -> Range(SaveOrder.asset)
      [] script = "src/prescriptive/weather_optimization.py" -> Range(SaveOrder.weather)
      [] script = "src/prescriptive/driver_performance_optimization.py"
           -> Range(SaveOrder.driver)

\* the loop going on after a failed step
after_step_continue(orchestrator, ok) == "next"

\* where the orchestrator goes when run_step is over: enhanced_pipeline
\* breaks out of the loop on False, run_pipeline's run_step calls sys.exit(1)
after_step(orchestrator, ok) ==
    IF ok THEN "next"
    ELSE IF orchestrator = "enhanced_pipeline" THEN "halted"
    ELSE "exited"

Orchestrators == {"enhanced_pipeline", "run_pipeline"}

\* the data files a run can find on disk when it starts
StartDisks == SUBSET {CLEANED_PATH, FEATURES_PATH, ASSET_DATA_PATH, WT_DATA_PATH}

\* no script run of its own
NoScript ==
    /\ df = EmptyFrame
    /\ agg = <<>> /\ agg2 = <<>>
    /\ summary = <<>> /\ summary2 = <<>>
    /\ optimal = <<>>
    /\ recs = <<>>
    /\ err = "none"

\* python src/enhanced_pipeline.py --stage <stage>, python src/run_pipeline.py
OrchestratorInit ==
    /\ inst \in Orchestrators
    /\ pc = "begin"
    /\ run \in [stage : IF inst = "enhanced_pipeline"
                        THEN {"all", "analysis", "prescriptive", "everything"}
                        ELSE {"STEPS"},
                start : StartDisks]
    /\ files = [p \in run.start |-> "start"]
    /\ log = <<>>
    /\ progress = 0
    /\ NoScript

\* run_pipeline(stage) up to its loop; main() of run_pipeline.py up to its loop
PipelineBegin ==
    /\ inst \in Orchestrators /\ pc = "begin"
    /\ IF inst = "enhanced_pipeline" /\ run.stage # "all" /\ run.stage \notin DOMAIN STAGES
       THEN pc' = "exited" /\ err' = "SystemExit"
       ELSE pc' = "next" /\ UNCHANGED err
    /\ UNCHANGED <<inst, files, df, agg, agg2, summary, summary2, optimal, recs,
                   run, log, progress>>

\* the list the loop of this run goes through
Steps == IF inst = "run_pipeline" THEN STEPS ELSE stages_to_run(run.stage)

\* the loop takes its next step: run_step(name, script) starts the script
StartStep ==
    /\ inst \in Orchestrators /\ pc = "next"
    /\ progress < Len(Steps)
    /\ progress' = progress + 1
    /\ log' = Append(log, [script |-> Steps[progress + 1], exit |-> "running"])
    /\ pc' = "step"
    /\ UNCHANGED <<inst, files, df, agg, agg2, summary, summary2, optimal, recs, err, run>>

\* the script ends: with a failure status when a file it reads is not there
\* or for a reason of its own, otherwise with status 0 and its files written;
\* run_step returns and the orchestrator goes on, halts or exits
StepExit ==
    /\ inst \in Orchestrators /\ pc = "step"
    /\ LET script == log[Len(log)].script
       IN  \E status \in IF Reads(script) \subseteq DOMAIN files
                         THEN {"ok", "error"} ELSE {"missing_input"} :
               /\ log' = [log EXCEPT ![Len(log)].exit = status]
               /\ files' = IF status = "ok"
                           THEN [p \in Writes(script) |-> script] @@ files
                           ELSE files
               /\ pc' = after_step(inst, status = "ok")
               /\ err' = IF status # "ok" /\ inst = "run_pipeline"
                         THEN "SystemExit" ELSE err
    /\ UNCHANGED <<inst, df, agg, agg2, summary, summary2, optimal, recs, run, progress>>

\* the loop is through
PipelineFinish ==
    /\ inst \in Orchestrators /\ pc = "next"
    /\ progress = Len(Steps)
    /\ pc' = "finished"
    /\ UNCHANGED <<inst, files, df, agg, agg2, summary, summary2, optimal, recs, err,
                   run, log, progress>>

\* =================================================================
\* the five prescriptive scripts run side by side on one disk
\* =================================================================
\* every script has its result and is in save_results; a file holds the
\* name of the script that wrote it last
ParallelInit ==
    /\ inst = "parallel"
    /\ pc = "saving"
    /\ run = [scripts |-> DOMAIN SaveOrder]
    /\ files = <<>>
    /\ log = <<>>
    /\ progress = [s \in DOMAIN SaveOrder |-> 0]
    /\ NoScript

\* one script writes the next file of its save_results: to_csv(path)
ParallelWrite ==
    /\ inst = "parallel" /\ pc = "saving"
    /\ \E s \in run.scripts :
           /\ progress[s] < Len(SaveOrder[s])
           /\ files' = (SaveOrder[s][progress[s] + 1] :> s) @@ files
           /\ progress' = [progress EXCEPT ![s] = @ + 1]
    /\ pc' = IF \A s \in run.scripts : progress'[s] = Len(SaveOrder[s])
             THEN "saved" ELSE "saving"
    /\ UNCHANGED <<inst, df, agg, agg2, summary, summary2, optimal, recs, err, run, log>>

\* =================================================================
\* combine_prescriptive.py
\* =================================================================
\* A file name is the sequence of its words: the words between the
\* underscores, then the extension ("a_b.csv" is <<"a", "b", "csv">>).

\* str.lower() of a word
LowerWord(w) ==
    CASE w = "Traffic" -> "traffic"
      [] w = "Optimization" -> "optimization"
      [] w = "Results" -> "results"
      [] OTHER -> w

\* str.title() of a word
TitleWord(w) ==
    CASE w = "traffic" -> "Traffic"
      [] w = "weather" -> "Weather"
      [] w = "asset" -> "Asset"
      [] w = "utilization" -> "Utilization"
      [] w = "optimization" -> "Optimization"
      [] w = "results" -> "Results"
      [] w = "driver" -> "Driver"
      [] w = "performance" -> "Performance"
      [] w = "insights" -> "Insights"
      [] w = "csv" -> "Csv"
      [] OTHER -> w

\* key in name
Contains(name, key) ==
    \E i \in 1..(Len(name) - Len(key) + 1) : SubSeq(name, i, i + Len(key) - 1) = key

\* OUTPUT_FILE, in INPUT_DIR
MASTER_FILE == <<"master", "prescriptive", "summary", "csv">>

EXCLUDE_KEYWORDS ==
    <<<<"details">>, <<"summary">>, <<"asset", "summary">>, <<"cost", "summary">>,
      <<"temp", "summary">>, <<"humidity", "summary">>>>

\* a filter that takes every CSV file
is_main_summary_any_csv(filename) ==
    LowerWord(filename[Len(filename)]) = "csv"

is_main_summary(filename) ==
    LET lowered == [i \in DOMAIN filename |-> LowerWord(filename[i])]
    IN  IF lowered[Len(lowered)] # "csv" THEN FALSE
        ELSE IF \E k \in DOMAIN EXCLUDE_KEYWORDS : Contains(lowered, EXCLUDE_KEYWORDS[k])
        THEN FALSE
        ELSE IF ~Contains(lowered, <<"optimization", "results">>) THEN FALSE
        ELSE TRUE

\* filename.replace("_optimization_results.csv", "").replace(".csv", "")
\* .title().replace("_", " "): the words of the module name
extract_module_name(filename) ==
    LET n == Len(filename)
        base == IF n > 3 /\ SubSeq(filename, n - 2, n) = <<"optimization", "results", "csv">>
                THEN SubSeq(filename, 1, n - 3)
                ELSE IF filename[n] = "csv" THEN SubSeq(filename, 1, n - 1)
                ELSE filename
    IN  [i \in DOMAIN base |-> TitleWord(base[i])]

\* pd.concat([a, b], ignore_index=True): the rows of a, then those of b, a
\* column a row does not have filled with NaN
concat(a, b) ==
    LET cols == a.columns \union b.columns
        fill(r) == [c \in cols |-> IF c \in DOMAIN r THEN r[c] ELSE NaN]
        rows == a.rows \o b.rows
    IN  [columns |-> cols, rows |-> [i \in DOMAIN rows |-> fill(rows[i])]]

\* the loop over all_files: a file that cannot be read (no columns) is left out
RECURSIVE combine(_, _, _)
combine(combined_df, all_files, dir) ==
    IF all_files = <<>> THEN combined_df
    ELSE LET file == Head(all_files)
             d == dir[file]
             module_name == extract_module_name(file)
         IN  IF d.columns = {}
             THEN combine(combined_df, Tail(all_files), dir)
             ELSE combine(concat(combined_df,
                                 Assign(d, "Module_Name",
                                        [i \in DOMAIN d.rows |-> module_name])),
                          Tail(all_files), dir)

\* the files INPUT_DIR can hold, in one order a listing can have
TRAFFIC_FILE == <<"traffic", "optimization", "results", "csv">>
WEATHER_FILE == <<"weather", "optimization", "results", "csv">>
ASSET_FILE == <<"asset", "utilization", "optimization", "results", "csv">>
DRIVER_FILE == <<"driver", "performance", "insights", "csv">>

DirNames ==
    <<WEATHER_FILE,
      <<"asset", "utilization", "optimization", "results", "cost", "summary", "csv">>,
      MASTER_FILE,
      TRAFFIC_FILE,
      <<"combine", "prescriptive", "py">>,
      DRIVER_FILE,
      <<"weather", "optimization", "results", "details", "csv">>,
      ASSET_FILE,
      <<"driver", "performance", "summary", "csv">>,
      <<"Traffic", "Optimization", "Results", "csv">>>>

\* os.listdir(INPUT_DIR): the names in the order of this disk
listdir(dir, order) ==
    LET present == SelectSeq(DirNames, LAMBDA f : f \in DOMAIN dir)
    IN  IF order = "forward" THEN present
        ELSE [i \in DOMAIN present |-> present[Len(present) + 1 - i]]

\* what a file of INPUT_DIR holds: one table for each name, the traffic one
\* with two rows
Content(name) ==
    LET i == IndexOf(DirNames, name)
    IN  IF name = TRAFFIC_FILE
        THEN [columns |-> {"Optimal_Hour", "Rank"},
              rows |-> <<[Optimal_Hour |-> 8, Rank |-> 1], [Optimal_Hour |-> 17, Rank |-> 2]>>]
        ELSE IF name[Len(name)] # "csv"
        THEN [columns |-> {"import os"}, rows |-> <<>>]
        ELSE [columns |-> {"Result"}, rows |-> <<[Result |-> i]>>]

\* runs of the combiner in one behaviour
MaxRuns == 2

CombinerInit ==
    /\ inst = "combine"
    /\ pc = "ready"
    /\ run \in [order : {"forward", "backward"}]
    /\ \E present \in SUBSET (Range(DirNames) \ {MASTER_FILE}) :
       \E unreadable \in SUBSET {WEATHER_FILE} :
           files = [f \in present |-> IF f \in unreadable THEN EmptyFrame ELSE Content(f)]
    /\ log = <<>>
    /\ progress = 0
    /\ NoScript

\* main(): combine_prescriptive_files()
Combine ==
    /\ inst = "combine" /\ pc = "ready"
    /\ progress < MaxRuns
    /\ LET listing == listdir(files, run.order)
           all_files == SelectSeq(listing, is_main_summary)
           combined_df == combine(EmptyFrame, all_files, files)
       IN  IF all_files = <<>>
           THEN /\ UNCHANGED files
                /\ log' = Append(log, [written |-> FALSE, master |-> EmptyFrame])
           ELSE /\ files' = (MASTER_FILE :> combined_df) @@ files
                /\ log' = Append(log, [written |-> TRUE, master |-> combined_df])
    /\ progress' = progress + 1
    /\ UNCHANGED <<inst, pc, df, agg, agg2, summary, summary2, optimal, recs, err, run>>

\* =================================================================
Init == TrafficInit \/ AssetInit \/ WTInit \/ WeatherInit \/ DriverInit
        \/ OrchestratorInit \/ ParallelInit \/ CombinerInit

Next ==
    \/ TrafficLoad
    \/ TrafficPreprocess
    \/ TrafficAnalyze
    \/ TrafficSave
    \/ AssetLoad
    \/ AssetPreprocess
    \/ AssetAnalyze
    \/ AssetSave
    \/ WTLoad
    \/ WTPreprocess
    \/ WTAnalyze
    \/ WTSave
    \/ WeatherLoad
    \/ WeatherPreprocess
    \/ WeatherAnalyze
    \/ WeatherSave
    \/ DriverLoad
    \/ DriverPreprocess
    \/ DriverAnalyze
    \/ DriverSave
    \/ PipelineBegin
    \/ StartStep
    \/ StepExit
    \/ PipelineFinish
    \/ ParallelWrite
    \/ Combine

Spec == Init /\ [][Next]_vars

\* =================================================================
\* Properties
\* =================================================================
Analysed == pc \in {"save", "done"}

\* the rows of frame d whose cell in column col lies on the interior bin
\* edge bins[i] carry the label of the interval that starts at that edge
LowerEdgeLabelled(d, col, range, bins, labels) ==
    \A k \in DOMAIN d.rows : \A i \in 2..Len(labels) :
        d.rows[k][col] = bins[i] => d.rows[k][range] = labels[i]

\* C1: in every bin definition in use (asset utilization, the temperature and
\* humidity bins of both weather scripts) a value equal to an interior edge
\* gets the label of the interval whose lower edge it is
C1_EdgeIsLowerBound ==
    /\ (inst = "asset" /\ "utilization_range" \in df.columns) =>
          LowerEdgeLabelled(df, "Asset_Utilization", "utilization_range",
                            UtilizationBins, UtilizationLabels)
    /\ (inst = "waiting_time" /\ "temp_range" \in df.columns) =>
          /\ LowerEdgeLabelled(df, "temperature", "temp_range",
                               WT_temp_bins, WT_temp_labels)
          /\ LowerEdgeLabelled(df, "humidity", "humidity_range",
                               WT_humidity_bins, WT_humidity_labels)
    /\ (inst = "weather" /\ "temp_range" \in df.columns) =>
          /\ LowerEdgeLabelled(df, "temperature", "temp_range",
                               Weather_temp_bins, Weather_temp_labels)
          /\ LowerEdgeLabelled(df, "humidity", "humidity_range",
                               Weather_hum_bins, Weather_hum_labels)

\* every row of d with a number in column col has a label in column range
AllLabelled(d, col, range) ==
    \A k \in DOMAIN d.rows : d.rows[k][col] # NaN => d.rows[k][range] # NaNStr

\* C2: binning is total: every numeric value of a binned field, 0 and the
\* lowest edge included, gets a range label
C2_BinningTotal ==
    /\ (inst = "asset" /\ "utilization_range" \in df.columns) =>
          AllLabelled(df, "Asset_Utilization", "utilization_range")
    /\ (inst \in {"waiting_time", "weather"} /\ "temp_range" \in df.columns) =>
          /\ AllLabelled(df, "temperature", "temp_range")
          /\ AllLabelled(df, "humidity", "humidity_range")

\* C3: the group reported as optimal has at least the script's minimum
\* number of samples: 5, and 10 in the penalty weather script
C3_OptimalSupported ==
    (Analysed /\ recs # <<>>) =>
        /\ inst = "traffic" => \A i \in DOMAIN recs : recs[i].Trips_Analyzed >= 5
        /\ inst = "asset" => recs[1].Samples_Analyzed >= 5
        /\ inst = "weather" => recs[1].Trips_Analyzed >= 5
        /\ inst = "waiting_time" =>
              /\ recs[1].Temp_Records_Analyzed >= 10
              /\ recs[1].Humidity_Records_Analyzed >= 10

\* some row of the aggregate a has at least n in its count column c
Passes(a, c, n) == \E i \in DOMAIN a : a[i][c] >= n

OutputPath ==
    CASE inst = "traffic" -> TRAFFIC_OUTPUT_PATH
      [] inst = "asset" -> ASSET_OUTPUT_PATH
      [] inst = "waiting_time" -> WT_OUTPUT_PATH
      [] inst = "weather" -> WEATHER_OUTPUT_PATH
      [] inst = "driver" -> DRIVER_OUTPUT_INSIGHTS

\* an empty recommendation is not an error and leaves no recommendation file
EmptyIsQuiet ==
    recs = <<>> => /\ err = "none"
                   /\ pc = "done" => OutputPath \notin DOMAIN files

\* C5 as stated: the analysis returns an empty recommendation exactly when no
\* group passes the support filter; then nothing is raised and no
\* recommendation file is written
C5_EmptyIffNoGroupPasses ==
    (Analysed /\ inst \in {"traffic", "weather", "waiting_time"}) =>
        /\ EmptyIsQuiet
        /\ inst \in {"traffic", "weather"} => (recs = <<>> <=> ~Passes(agg, "trips", 5))
        /\ inst = "waiting_time" =>
              (recs = <<>> <=> ~(Passes(agg, "count", 10) \/ Passes(agg2, "count", 10)))

\* C5 amended: in the penalty weather script the recommendation is empty
\* exactly when the temperature groups or the humidity groups hold no group
\* that passes; in the other scripts exactly when no group passes
C5_EmptyIffSomeSummaryEmpty ==
    (Analysed /\ inst \in {"traffic", "weather", "waiting_time"}) =>
        /\ EmptyIsQuiet
        /\ inst \in {"traffic", "weather"} => (recs = <<>> <=> ~Passes(agg, "trips", 5))
        /\ inst = "waiting_time" =>
              (recs = <<>> <=> (~Passes(agg, "count", 10) \/ ~Passes(agg2, "count", 10)))

\* a finished penalty weather run in which a temperature group passes, no
\* humidity group does, and nothing was recommended or written
C5_Witness ==
    /\ inst = "waiting_time" /\ pc = "done"
    /\ Passes(agg, "count", 10) /\ ~Passes(agg2, "count", 10)
    /\ recs = <<>> /\ err = "none"
    /\ WT_OUTPUT_PATH \notin DOMAIN files

\* the sum of column c over the rows of a
RECURSIVE Total(_, _)
Total(a, c) == IF a = <<>> THEN 0 ELSE Head(a)[c] + Total(Tail(a), c)

\* C6: the counts of the groups of an aggregation, before filtering, add up
\* to the number of input records
C6_CountsSumToTotal ==
    Analysed =>
        /\ inst = "traffic" => Total(agg, "trips") = Len(df.rows)
        /\ inst = "asset" => Total(agg, "samples") = Len(df.rows)
        /\ inst = "weather" => Total(agg, "trips") = Len(df.rows)
        /\ inst = "waiting_time" =>
              /\ Total(agg, "count") = Len(df.rows)
              /\ Total(agg2, "count") = Len(df.rows)

\* the file the running script reads
InputPath ==
    CASE inst = "traffic" -> TRAFFIC_DATA_PATH
      [] inst = "asset" -> ASSET_DATA_PATH
      [] inst = "waiting_time" -> WT_DATA_PATH
      [] inst = "weather" -> WEATHER_DATA_PATH
      [] inst = "driver" -> DRIVER_DATA_PATH

\* row i of the input file has an unparseable timestamp, or an empty or text
\* cell in one of its numeric columns cols
Malformed(i, cols) ==
    LET f == files[InputPath]
    IN  \/ "Timestamp" \in f.columns /\ ~f.rows[i].Timestamp.valid
        \/ \E c \in cols \cap f.columns : f.rows[i][c] \in {NaN, BadText}

\* C7: a record with a malformed or missing field is recovered by
\* substitution and takes part in the aggregation: it is in a group
C7_MalformedStillAggregated ==
    /\ (Analysed /\ inst = "traffic") =>
          \A i \in DOMAIN df.rows :
              Malformed(i, {"Delay_Penalty_Cost"}) =>
                  \E j \in DOMAIN agg : TrafficKey(agg[j]) = TrafficKey(df.rows[i])
    /\ (Analysed /\ inst \in {"waiting_time", "weather"}) =>
          \A i \in DOMAIN df.rows :
              Malformed(i, {"Temperature", "Humidity", "Delay_Penalty_Cost"}) =>
                  /\ df.rows[i].temp_range # NaNStr
                  /\ df.rows[i].humidity_range # NaNStr

\* C8: without a partition key the selected row has the extremal mean among
\* the candidate rows: no candidate has a strictly lower mean cost or penalty
\* (asset, penalty weather) or a strictly higher mean efficiency (weather)
C8_GlobalExtremum ==
    (Analysed /\ optimal # <<>>) =>
        /\ inst = "asset" =>
              /\ optimal[1] \in Range(agg)
              /\ recs[1].Optimal_Utilization_Range = optimal[1].utilization_range
              /\ \A j \in NotNaN(agg, "avg_cost") :
                    ~RatLess(agg[j].avg_cost, optimal[1].avg_cost)
        /\ inst = "waiting_time" =>
              /\ optimal[1] \in Range(summary) /\ optimal[2] \in Range(summary2)
              /\ recs[1].Optimal_Temperature_Range = optimal[1].range
              /\ recs[1].Optimal_Humidity_Range = optimal[2].range
              /\ \A j \in DOMAIN summary :
                    ~RatLess(summary[j].avg_penalty, optimal[1].avg_penalty)
              /\ \A j \in DOMAIN summary2 :
                    ~RatLess(summary2[j].avg_penalty, optimal[2].avg_penalty)
        /\ inst = "weather" =>
              /\ optimal[1] \in Range(summary)
              /\ recs[1].Optimal_Temp_Range = optimal[1].temp_range
              /\ recs[1].Optimal_Humidity_Range = optimal[1].humidity_range
              /\ \A j \in DOMAIN summary :
                    ~RatLess(optimal[1].avg_efficiency, summary[j].avg_efficiency)

\* a finished asset run with two candidate ranges of which the later one is
\* strictly cheaper, and a recommendation
C8_Witness ==
    /\ inst = "asset" /\ pc = "done" /\ recs # <<>>
    /\ \E i, j \in NotNaN(agg, "avg_cost") :
          i < j /\ RatLess(agg[j].avg_cost, agg[i].avg_cost)

\* the positions of the supported groups of the traffic aggregate
TrafficSupported == {j \in DOMAIN agg : agg[j].trips >= 5}

\* mean penalty x (trips / M), M the largest trip count of all supported groups
TrafficWeighted(r) ==
    LET M == MaxOf({agg[j].trips : j \in TrafficSupported})
    IN  <<r.avg_penalty[1] * r.trips, r.avg_penalty[2] * M>>

\* recommendation row rec reports the aggregate row r
Reports(rec, r) ==
    /\ rec.dayofweek = r.dayofweek
    /\ rec.Recommended_Hour = r.hour
    /\ rec.traffic_status = r.traffic_status
    /\ rec.Min_Avg_Penalty = r.avg_penalty
    /\ rec.Trips_Analyzed = r.trips

\* C9: traffic outputs one row for each weekday that has a supported group
\* and none for the others; the row minimises, among the weekday's supported
\* groups, mean penalty x (trips / M) with M the largest trip count of the
\* supported groups of all weekdays
C9_OnePerWeekdayGlobalMax ==
    (Analysed /\ inst = "traffic") =>
        /\ \A d \in Range(SortedDays) :
              Cardinality({i \in DOMAIN recs : recs[i].dayofweek = d})
                 = IF \E j \in TrafficSupported : agg[j].dayofweek = d THEN 1 ELSE 0
        /\ \A i \in DOMAIN recs : \E j \in TrafficSupported :
              /\ Reports(recs[i], agg[j])
              /\ \A k \in TrafficSupported :
                    agg[k].dayofweek = agg[j].dayofweek =>
                        RatLeq(TrafficWeighted(agg[j]), TrafficWeighted(agg[k]))
        /\ \A i \in DOMAIN summary :
              RatEq(summary[i].weighted_penalty, TrafficWeighted(summary[i]))

\* a finished traffic run: Monday has two supported groups of different
\* weighted penalty, Tuesday one, and the largest supported trip count of
\* Tuesday is below that of Monday
C9_Witness ==
    /\ inst = "traffic" /\ pc = "done" /\ Len(recs) = 2
    /\ \E i, j \in TrafficSupported :
          /\ agg[i].dayofweek = "Monday" /\ agg[j].dayofweek = "Monday"
          /\ RatLess(TrafficWeighted(agg[i]), TrafficWeighted(agg[j]))
    /\ \E i \in TrafficSupported :
          /\ agg[i].dayofweek = "Monday"
          /\ \A j \in TrafficSupported :
                agg[j].dayofweek = "Tuesday" => agg[j].trips < agg[i].trips

\* C10: of two supported groups of one weekday with the same positive mean
\* penalty, the one with more trips is the one recommended, never the other
C10_LargerSupportPreferred ==
    (Analysed /\ inst = "traffic") =>
        \A a, b \in TrafficSupported :
            (/\ agg[a].dayofweek = agg[b].dayofweek
             /\ RatEq(agg[a].avg_penalty, agg[b].avg_penalty)
             /\ agg[a].avg_penalty[1] > 0
             /\ agg[a].trips > agg[b].trips)
            => ~\E i \in DOMAIN recs : Reports(recs[i], agg[b])

\* the range labels in the order of their text
UtilizationLabelsByText == <<"0-40%", "100%+", "40-60%", "60-80%", "80-100%">>
WT_temp_labelsByText == <<"10-15C", "15-20C", "20-25C", "25-30C", "30-35C", "<10C", ">35C">>
WT_humidity_labelsByText ==
    <<"0-20%", "20-30%", "30-40%", "40-50%", "50-60%", "60-70%", "70-80%", "80%+">>
Weather_temp_labelsByText == <<"20-25C", "25-30C", "30-35C", "<20C", ">35C">>
Weather_hum_labelsByText == <<"40-60%", "60-80%", "<40%", ">80%">>

\* label a does not come after label b in the order given by the list
NotAfter(order, a, b) == IndexOf(order, a) <= IndexOf(order, b)

\* the pair <<a1, a2>> does not come after <<b1, b2>>, first by order1, then
\* by order2
PairNotAfter(order1, order2, a1, a2, b1, b2) ==
    \/ IndexOf(order1, a1) < IndexOf(order1, b1)
    \/ a1 = b1 /\ NotAfter(order2, a2, b2)

\* among the traffic groups that tie with the reported one on the weighted
\* penalty of their weekday, the reported one has the least (hour, status)
TrafficTieFirst ==
    inst = "traffic" =>
        \A i \in DOMAIN recs : \E j \in DOMAIN summary :
            /\ Reports(recs[i], summary[j])
            /\ \A k \in DOMAIN summary :
                  (/\ summary[k].dayofweek = summary[j].dayofweek
                   /\ RatEq(summary[k].weighted_penalty, summary[j].weighted_penalty))
                  => ~TrafficKeyLess(TrafficKey(summary[k]), TrafficKey(summary[j]))

\* among the candidate rows that tie with the selected one, the selected one
\* comes first in the given orders of the labels
BinnedTieFirst(util, temp, hum, etemp, ehum) ==
    /\ inst = "asset" =>
          \A j \in NotNaN(agg, "avg_cost") :
              RatEq(agg[j].avg_cost, optimal[1].avg_cost) =>
                  NotAfter(util, optimal[1].utilization_range, agg[j].utilization_range)
    /\ inst = "waiting_time" =>
          /\ \A j \in DOMAIN summary :
                RatEq(summary[j].avg_penalty, optimal[1].avg_penalty) =>
                    NotAfter(temp, optimal[1].range, summary[j].range)
          /\ \A j \in DOMAIN summary2 :
                RatEq(summary2[j].avg_penalty, optimal[2].avg_penalty) =>
                    NotAfter(hum, optimal[2].range, summary2[j].range)
    /\ inst = "weather" =>
          \A j \in DOMAIN summary :
              RatEq(summary[j].avg_efficiency, optimal[1].avg_efficiency) =>
                  PairNotAfter(etemp, ehum,
                               optimal[1].temp_range, optimal[1].humidity_range,
                               summary[j].temp_range, summary[j].humidity_range)

\* C11 as stated: when candidate rows share the extremal value, the selected
\* row is the one whose key is first in lexicographic order: (weekday, hour,
\* status) in traffic, the text of the range labels in the binned scripts
C11_TieFirstByText ==
    (Analysed /\ recs # <<>>) =>
        /\ TrafficTieFirst
        /\ BinnedTieFirst(UtilizationLabelsByText, WT_temp_labelsByText,
                          WT_humidity_labelsByText, Weather_temp_labelsByText,
                          Weather_hum_labelsByText)

\* C11 amended: when candidate rows share the extremal value, the selected
\* row is the first in the order of the groups: ascending (hour, status)
\* within the weekday in traffic, ascending bin order in the binned scripts
C11_TieFirstByBinOrder ==
    (Analysed /\ recs # <<>>) =>
        /\ TrafficTieFirst
        /\ BinnedTieFirst(UtilizationLabels, WT_temp_labels, WT_humidity_labels,
                          Weather_temp_labels, Weather_hum_labels)

\* a finished asset run in which the ranges 80-100% and 100%+ share the
\* least mean cost and 80-100% is the one recommended
C11_Witness ==
    /\ inst = "asset" /\ pc = "done" /\ recs # <<>>
    /\ recs[1].Optimal_Utilization_Range = "80-100%"
    /\ \E j \in NotNaN(agg, "avg_cost") :
          /\ agg[j].utilization_range = "100%+"
          /\ RatEq(agg[j].avg_cost, optimal[1].avg_cost)

\* the rows of a table in other orders: reversed, rotated by k, and the rows
\* at odd positions followed by those at even positions
Reverse(rows) == [i \in DOMAIN rows |-> rows[Len(rows) + 1 - i]]
Rotate(rows, k) == [i \in DOMAIN rows |-> rows[((i + k - 1) % Len(rows)) + 1]]
OddsThenEvens(rows) ==
    LET n == Len(rows)
        odds == (n + 1) \div 2
    IN  [i \in DOMAIN rows |-> IF i <= odds THEN rows[2 * i - 1] ELSE rows[2 * (i - odds)]]

MaxRotate == 3

\* tables holding the records of d in another order
Reordered(d) ==
    {[d EXCEPT !.rows = r] :
        r \in {Reverse(d.rows), OddsThenEvens(d.rows)}
               \union {Rotate(d.rows, k) : k \in 1..MaxRotate}}

\* C12: the analysis step gives the same recommendation rows for a table
\* that holds the same records in another order, ties included
C12_OrderInvariant ==
    Analysed =>
        \A p \in Reordered(df) :
            /\ inst = "traffic" => analyze_traffic_cost(p, TRAFFIC_MIN_TRIPS).recs = recs
            /\ inst = "asset" => analyze_utilization(p).recs = recs
            /\ inst = "waiting_time" => analyze_weather_effect(p, WT_MIN_RECORDS).recs = recs
            /\ inst = "weather" => analyze_weather(p, WEATHER_MIN_TRIPS).recs = recs

\* a finished traffic run whose table is not its own reverse and in which
\* two Monday groups tie on the weighted penalty
C12_Witness ==
    /\ inst = "traffic" /\ pc = "done" /\ recs # <<>>
    /\ Reverse(df.rows) # df.rows
    /\ \E i, j \in DOMAIN summary :
          /\ i # j /\ summary[i].dayofweek = summary[j].dayofweek
          /\ RatEq(summary[i].weighted_penalty, summary[j].weighted_penalty)

\* C13: the N traffic recommendation rows carry the ranks 1..N, each once,
\* ascending in the metric the rows were selected by (the weighted penalty),
\* equal values ranked in the order of their keys
C13_RanksArePermutation ==
    (Analysed /\ inst = "traffic" /\ recs # <<>>) =>
        /\ {recs[i].Rank : i \in DOMAIN recs} = 1..Len(recs)
        /\ \A i, j \in DOMAIN recs :
              \/ RatLess(optimal[i].weighted_penalty, optimal[j].weighted_penalty)
              \/ /\ RatEq(optimal[i].weighted_penalty, optimal[j].weighted_penalty)
                 /\ TrafficKeyLess(TrafficKey(optimal[i]), TrafficKey(optimal[j]))
              => recs[i].Rank < recs[j].Rank

\* the mean of column c over every record of the table
Baseline(c) == <<Total(df.rows, c), Len(df.rows)>>

\* the mean of the efficiency over every record of the table
BaselineEfficiency ==
    RatMul(RatSum([i \in DOMAIN df.rows |-> df.rows[i].weather_efficiency]),
           <<1, Len(df.rows)>>)

\* C14: the estimated delta is taken against the mean of the target metric
\* over every input record, those in removed groups or in no group included:
\* that mean - optimal when minimising (asset, penalty weather), optimal -
\* that mean when maximising (efficiency weather)
C14_DeltaAgainstAllRecords ==
    (Analysed /\ recs # <<>>) =>
        /\ Len(df.rows) = Len(files[InputPath].rows)
        /\ inst = "asset" =>
              recs[1].Estimated_Savings_Per_Unit =
                  round2(RatSub(Baseline("Cost_per_Asset_Utilization"),
                                optimal[1].avg_cost))
        /\ inst = "waiting_time" =>
              recs[1].Estimated_Savings_Per_Trip =
                  round2(RatSub(Baseline("delay_penalty"),
                                RatHalfSum(optimal[1].avg_penalty,
                                           optimal[2].avg_penalty)))
        /\ inst = "weather" =>
              recs[1].Estimated_Improvement =
                  round2(RatSub(optimal[1].avg_efficiency, BaselineEfficiency))

\* a finished asset run with a record that fell in no utilization range and
\* changes the mean over all records
C14_Witness ==
    /\ inst = "asset" /\ pc = "done" /\ recs # <<>>
    /\ \E i \in DOMAIN df.rows : df.rows[i].utilization_range = NaNStr
    /\ ~RatEq(Baseline("Cost_per_Asset_Utilization"),
              mean(SelectSeq(df.rows, LAMBDA r : r.utilization_range # NaNStr),
                   "Cost_per_Asset_Utilization"))

\* the records of the table whose column c holds label l
InRange(c, l) == SelectSeq(df.rows, LAMBDA r : r[c] = l)

\* label l is, among the labels of column c carried by at least n records,
\* one of least mean penalty, and m is that mean
LeastSupported(c, labels, l, m, n) ==
    /\ Len(InRange(c, l)) >= n
    /\ RatEq(m, <<Total(InRange(c, l), "delay_penalty"), Len(InRange(c, l))>>)
    /\ \A k \in Range(labels) :
          Len(InRange(c, k)) >= n =>
              RatLeq(m, <<Total(InRange(c, k), "delay_penalty"), Len(InRange(c, k))>>)

\* C15: in the penalty weather script the temperature optimum and the
\* humidity optimum are each the best of their own supported one-dimensional
\* groups, and the reported minimum penalty is the mean of the two group
\* means
C15_IndependentOptima ==
    (Analysed /\ inst = "waiting_time" /\ recs # <<>>) =>
        /\ LeastSupported("temp_range", WT_temp_labels,
                          recs[1].Optimal_Temperature_Range,
                          optimal[1].avg_penalty, WT_MIN_RECORDS)
        /\ LeastSupported("humidity_range", WT_humidity_labels,
                          recs[1].Optimal_Humidity_Range,
                          optimal[2].avg_penalty, WT_MIN_RECORDS)
        /\ recs[1].Min_Avg_Penalty =
              round2(RatHalfSum(optimal[1].avg_penalty, optimal[2].avg_penalty))

\* the records that lie in both recommended ranges
JointGroup ==
    SelectSeq(df.rows, LAMBDA r : /\ r.temp_range = recs[1].Optimal_Temperature_Range
                                  /\ r.humidity_range = recs[1].Optimal_Humidity_Range)

\* a finished penalty weather run whose reported minimum differs from the
\* mean penalty of the records in both recommended ranges
C15_Witness ==
    /\ inst = "waiting_time" /\ pc = "done" /\ recs # <<>>
    /\ JointGroup # <<>>
    /\ recs[1].Min_Avg_Penalty
          # round2(<<Total(JointGroup, "delay_penalty"), Len(JointGroup)>>)

\* the seven-record table: two records of penalty 10 and 12 in the lowest
\* temperature and humidity ranges, five of penalty 80, 82, 78, 84, 79 in
\* the ranges 20-25C and 40-50%
ScenarioFile ==
    [columns |-> {"Temperature", "Humidity", "Delay_Penalty_Cost"},
     rows |-> <<WTRow(5 * Half, 10 * Half, 10), WTRow(5 * Half, 10 * Half, 12),
                WTRow(22 * Half, 45 * Half, 80), WTRow(22 * Half, 45 * Half, 82),
                WTRow(22 * Half, 45 * Half, 78), WTRow(22 * Half, 45 * Half, 84),
                WTRow(22 * Half, 45 * Half, 79)>>]

\* analyze_weather_effect on the seven-record table with min_records = 5
ScenarioResult == analyze_weather_effect(WT_preprocess(WT_load_data(ScenarioFile)), 5)

\* the optimum row opt of the aggregate a is supported by n records and no
\* supported row of a has a strictly lower mean penalty
BestOfSupported(a, opt, n) ==
    /\ opt.count >= n
    /\ \A j \in DOMAIN a : a[j].count >= n => RatLeq(opt.avg_penalty, a[j].avg_penalty)

\* C16: a bin with the best mean but fewer records than the minimum is out
\* of contention: the optimum is the best of the supported bins, and for the
\* seven-record table with a minimum of 5 the selected bin is 40-50% with 5
\* records and mean 80.6, the delta being 425/7 - 80.6 = -19.89
C16_LowSampleBinExcluded ==
    /\ (Analysed /\ inst = "waiting_time" /\ recs # <<>>) =>
          /\ BestOfSupported(agg, optimal[1], WT_MIN_RECORDS)
          /\ BestOfSupported(agg2, optimal[2], WT_MIN_RECORDS)
    /\ (Analysed /\ inst = "weather" /\ recs # <<>>) =>
          /\ optimal[1].trips >= WEATHER_MIN_TRIPS
          /\ \A j \in DOMAIN agg :
                agg[j].trips >= WEATHER_MIN_TRIPS =>
                    RatLeq(agg[j].avg_efficiency, optimal[1].avg_efficiency)
    /\ inst = "waiting_time" =>
          /\ Len(ScenarioResult.recs) = 1
          /\ ScenarioResult.recs[1].Optimal_Humidity_Range = "40-50%"
          /\ ScenarioResult.recs[1].Optimal_Temperature_Range = "20-25C"
          /\ ScenarioResult.recs[1].Humidity_Records_Analyzed = 5
          /\ ScenarioResult.recs[1].Temp_Records_Analyzed = 5
          /\ ScenarioResult.recs[1].Min_Avg_Penalty = 8060
          /\ ScenarioResult.recs[1].Estimated_Savings_Per_Trip = -1989

\* a finished penalty weather run in which a humidity range with fewer than
\* 10 records has a lower mean penalty than the recommended one and the
\* estimated saving is negative
C16_Witness ==
    /\ inst = "waiting_time" /\ pc = "done" /\ recs # <<>>
    /\ recs[1].Estimated_Savings_Per_Trip < 0
    /\ \E j \in DOMAIN agg2 :
          /\ agg2[j].count \in 1..(WT_MIN_RECORDS - 1)
          /\ RatLess(agg2[j].avg_penalty, optimal[2].avg_penalty)

\* the scores 10, 20, ..., 90, in hundredths
NineScores == [i \in 1..9 |-> 1000 * i]

\* C17: with p33 and p67 the 33rd and 67th percentiles of the asset scores,
\* a score >= p67 is a High Performer, otherwise a score <= p33 an
\* Underperformer, otherwise a Moderate Performer; of the scores 10..90 the
\* lowest three are Underperformers, the highest three High Performers
C17_QuantileTiers ==
    /\ (Analysed /\ inst = "asset") =>
          LET scores == [k \in DOMAIN agg2 |-> agg2[k].efficiency_score]
              p33 == quantile(scores, 33)
              p67 == quantile(scores, 67)
          IN  \A k \in DOMAIN agg2 :
                  agg2[k].Performance_Tier =
                      IF RatLeq(p67, <<scores[k], 1>>) THEN "High Performer"
                      ELSE IF RatLeq(<<scores[k], 1>>, p33) THEN "Underperformer"
                      ELSE "Moderate Performer"
    /\ inst = "asset" =>
          Performance_Tier(NineScores) =
              [i \in 1..9 |-> IF i <= 3 THEN "Underperformer"
                              ELSE IF i >= 7 THEN "High Performer"
                              ELSE "Moderate Performer"]

\* a finished asset run with three assets, one in each tier
C17_Witness ==
    /\ inst = "asset" /\ pc = "done"
    /\ {agg2[k].Performance_Tier : k \in DOMAIN agg2}
          = {"High Performer", "Moderate Performer", "Underperformer"}

\* ---- C18 ---------------------------------------------------------------
DriverAnalysed == inst = "driver" /\ pc \in {"save", "done"}

\* a >= (k / 10) * b for fractions with positive denominators, false when
\* either is NaN
AtLeastTenths(a, k, b) ==
    /\ a[2] # 0 /\ b[2] # 0
    /\ 10 * a[1] * b[2] >= k * b[1] * a[2]

\* the tier the three-way rule gives an average efficiency under a mean
ThreeWayTier(avg, m) ==
    IF AtLeastTenths(avg, 11, m) THEN "High Performer"
    ELSE IF AtLeastTenths(avg, 9, m) THEN "Average"
    ELSE "Underperformer"

\* C18: every driver of the summary is tiered against the mean of the
\* drivers' average efficiencies in priority order: "High Performer" when
\* its average is at least 1.1 times the mean, otherwise "Average" when it
\* is at least 0.9 times the mean, otherwise "Underperformer"
C18_TierByPriority ==
    DriverAnalysed =>
        \A k \in DOMAIN summary :
            summary[k].Performance_Tier =
                ThreeWayTier(summary[k].avg_efficiency,
                             meanSkipNaN(summary, "avg_efficiency"))

\* the same rule for the drivers whose average efficiency is a number
C18_TierByPriorityDefined ==
    DriverAnalysed =>
        \A k \in DOMAIN summary :
            ~RatIsNaN(summary[k].avg_efficiency) =>
                summary[k].Performance_Tier =
                    ThreeWayTier(summary[k].avg_efficiency,
                                 meanSkipNaN(summary, "avg_efficiency"))

\* a summary with a high performer, an average driver and an underperformer
C18_ThreeTiers ==
    /\ DriverAnalysed
    /\ \A t \in {"High Performer", "Average", "Underperformer"} :
           \E k \in DOMAIN summary : summary[k].Performance_Tier = t

\* ---- C19 ---------------------------------------------------------------
\* C19: the synthesised fields are a function of the input table: every run
\* of the driver script on the input file of a finished run yields this
\* run's summary and insights, whatever driver ids it synthesises, and the
\* traffic table after preprocessing is the one table the input determines
C19_SynthesisDeterministic ==
    /\ (DriverAnalysed =>
            \A d \in Driver_load_data(files[DRIVER_DATA_PATH]) :
                analyze_driver_performance(Driver_preprocess(d))
                    = [summary |-> summary, insights |-> recs])
    /\ (inst = "traffic" /\ pc = "analyze" =>
            df = Traffic_preprocess(Traffic_load_data(files[TRAFFIC_DATA_PATH])))

\* ---- C20 ---------------------------------------------------------------
\* the lower-cased input columns the target metric of each script is, or is
\* computed from
TargetFields ==
    CASE inst = "traffic" -> {"delay_penalty"}
      [] inst = "asset" -> {"cost_per_asset_utilization"}
      [] inst = "waiting_time" -> {"delay_penalty"}
      [] inst = "weather" -> {"asset_utilization", "idle_cost", "cost_per_asset_utilization"}
      [] inst = "driver" -> {"asset_utilization", "waiting_time", "idle_cost"}

\* the input file exists and lacks a column of the target metric
TargetAbsent ==
    /\ inst \in DOMAIN SaveOrder
    /\ InputPath \in DOMAIN files
    /\ LET cols == {IF lower(c) = "delay_penalty_cost" THEN "delay_penalty" ELSE lower(c) :
                        c \in files[InputPath].columns}
       IN  \E c \in TargetFields : c \notin cols

\* C20: a run whose input table lacks a column of its target metric ends
\* with a missing-column error and without a recommendation or output file
C20_MissingTargetRaises ==
    (TargetAbsent /\ pc \in {"done", "failed"}) =>
        /\ err = "KeyError"
        /\ recs = <<>>
        /\ OutputPath \notin DOMAIN files

\* the runs of the asset and waiting-time scripts do end so
C20_RaisesWhereChecked ==
    (TargetAbsent /\ inst \in {"asset", "waiting_time"} /\ pc \in {"done", "failed"}) =>
        /\ err = "KeyError"
        /\ recs = <<>>
        /\ OutputPath \notin DOMAIN files

\* ---- C24 ---------------------------------------------------------------
\* the table load_data returned to this run, without a synthetic driver id
Loaded ==
    CASE inst = "traffic" -> Traffic_load_data(files[InputPath])
      [] inst = "asset" -> Asset_load_data(files[InputPath])
      [] inst = "waiting_time" -> WT_load_data(files[InputPath])
      [] inst = "weather" -> Weather_load_data(files[InputPath])
      [] inst = "driver" -> LowerColumns(files[InputPath])

\* C24: after preprocessing and to the end of the run the table has the
\* loaded records, and every field a record had when it was loaded still
\* has its loaded value
C24_LoadedFieldsKept ==
    (pc \in {"analyze", "save", "done"}) =>
        /\ Len(df.rows) = Len(Loaded.rows)
        /\ \A i \in DOMAIN df.rows : \A c \in Loaded.columns :
               df.rows[i][c] = Loaded.rows[i][c]

\* ---- C25 ---------------------------------------------------------------
AssetReported == inst = "asset" /\ Analysed /\ recs # <<>>

AllNonNegative == \A i \in DOMAIN df.rows : df.rows[i].Asset_Utilization >= 0

\* C25: in a finished asset run in which every record's utilization is at
\* least 0, every record is in a utilization range and the least mean cost
\* of a range does not exceed the mean cost over all records, so the saving
\* before rounding is not negative
C25_SavingsNonNegative ==
    (AssetReported /\ AllNonNegative) =>
        /\ \A i \in DOMAIN df.rows : df.rows[i].utilization_range # NaNStr
        /\ RatLeq(optimal[1].avg_cost, Baseline("Cost_per_Asset_Utilization"))

\* such a run with records in two ranges of different mean cost, one of
\* them on the lowest edge, and a positive saving
C25_Witness ==
    /\ AssetReported /\ AllNonNegative
    /\ \E i \in DOMAIN df.rows : df.rows[i].Asset_Utilization = 0
    /\ \E j, k \in DOMAIN summary :
           /\ summary[j].samples > 0 /\ summary[k].samples > 0
           /\ RatLess(summary[j].avg_cost, summary[k].avg_cost)
    /\ RatLess(optimal[1].avg_cost, Baseline("Cost_per_Asset_Utilization"))

\* ---- C26 ---------------------------------------------------------------
CountTier(s, t) == Len(SelectSeq(s, LAMBDA r : r.Performance_Tier = t))

\* every row of s has one of the three labels and the three counts add up
\* to the number of rows
ThreeTiers(s, a, b, c) ==
    /\ \A k \in DOMAIN s : s[k].Performance_Tier \in {a, b, c}
    /\ CountTier(s, a) + CountTier(s, b) + CountTier(s, c) = Len(s)

\* C26: every asset of a finished asset run is High Performer, Moderate
\* Performer or Underperformer, every driver of a finished driver run is
\* High Performer, Average or Underperformer, "Unclassified" is on no row,
\* and the three tier counts add up to the number of entities
C26_ExactlyOneOfThreeTiers ==
    /\ (inst = "asset" /\ Analysed) =>
           ThreeTiers(agg2, "High Performer", "Moderate Performer", "Underperformer")
    /\ DriverAnalysed =>
           ThreeTiers(summary, "High Performer", "Average", "Underperformer")

\* the same for the assets and for the driver runs in which every driver's
\* average efficiency is a number
C26_ThreeTiersWhereNumeric ==
    /\ (inst = "asset" /\ Analysed) =>
           ThreeTiers(agg2, "High Performer", "Moderate Performer", "Underperformer")
    /\ (DriverAnalysed /\ \A k \in DOMAIN summary : ~RatIsNaN(summary[k].avg_efficiency)) =>
           ThreeTiers(summary, "High Performer", "Average", "Underperformer")

\* ---- C22 ---------------------------------------------------------------
Orchestrated == inst \in Orchestrators

\* the configured list of the run, as the configuration gives it
Configured ==
    IF inst = "run_pipeline" THEN STEPS
    ELSE IF run.stage = "all" THEN STAGES.analysis \o STAGES.prescriptive
    ELSE IF run.stage = "analysis" THEN STAGES.analysis
    ELSE IF run.stage = "prescriptive" THEN STAGES.prescriptive
    ELSE <<>>

\* C22: in a run of either orchestrator the steps started so far are the
\* first steps of the configured list, in its order and each once, every
\* step but the last started one has exited with success, and a step that
\* exited with a failure is the last one started
C22_StartedIsPrefix ==
    Orchestrated =>
        /\ Len(log) <= Len(Configured)
        /\ \A k \in DOMAIN log : log[k].script = Configured[k]
        /\ \A j, k \in DOMAIN log : log[j].script = log[k].script => j = k
        /\ \A k \in DOMAIN log : k < Len(log) => log[k].exit = "ok"
        /\ \A k \in DOMAIN log :
               log[k].exit \in {"error", "missing_input"} =>
                   k = Len(log) /\ pc \in {"halted", "exited"}

\* a run that stopped at the failure of its third or a later step
C22_Witness ==
    /\ Orchestrated
    /\ pc \in {"halted", "exited"}
    /\ Len(log) >= 3
    /\ Len(log) < Len(Configured)
    /\ log[Len(log)].exit = "error"

\* ---- C27 ---------------------------------------------------------------
\* a run of the 'all' list or of STEPS that found only the cleaned dataset
FromCleanedOnly ==
    /\ Orchestrated
    /\ run.stage \in {"all", "STEPS"}
    /\ run.start = {CLEANED_PATH}

\* C27: in a run of the 'all' list or of STEPS that starts with only the
\* cleaned dataset on disk no step fails for a file it reads and that is
\* not there
C27_InputsProducedBefore ==
    FromCleanedOnly => \A k \in DOMAIN log : log[k].exit # "missing_input"

\* in such a run no step other than the first reads a file that neither was
\* there at the start nor is written by an earlier step of the list
C27_OnlyFirstStepEarly ==
    FromCleanedOnly =>
        \A k \in DOMAIN Configured :
            k > 1 =>
                Reads(Configured[k]) \subseteq
                    run.start \union UNION {Writes(Configured[j]) : j \in 1..(k - 1)}

\* ---- C21 ---------------------------------------------------------------
\* C21: when the five scripts, run side by side, have all saved, every
\* output file of every script holds what that script wrote, whatever the
\* order of the writes was
C21_OutputsIndependent ==
    (inst = "parallel" /\ pc = "saved") =>
        \A s \in run.scripts : \A k \in DOMAIN SaveOrder[s] :
            files[SaveOrder[s][k]] = s

\* the same for every output file but the one of the two weather scripts
C21_IndependentButWeather ==
    (inst = "parallel" /\ pc = "saved") =>
        \A s \in run.scripts : \A k \in DOMAIN SaveOrder[s] :
            SaveOrder[s][k] # WEATHER_OUTPUT_PATH => files[SaveOrder[s][k]] = s

\* ---- C23 ---------------------------------------------------------------
Combined == inst = "combine" /\ progress >= 1

\* the main recommendation files of the five scripts, by their names in
\* the scripts; the two weather scripts name the same file
MainFiles == {TRAFFIC_FILE, WEATHER_FILE, ASSET_FILE, DRIVER_FILE}

\* row m of the master table is row r of file f, tagged
TaggedRowOf(m, r, f) ==
    /\ \A c \in DOMAIN r : m[c] = r[c]
    /\ m.Module_Name = extract_module_name(f)

\* C23: after a run of the combiner every row of every readable main
\* recommendation file in the directory is a row of the master table,
\* tagged with a module name made from the file's name, and no row of the
\* master table comes from another file of the five scripts
C23_MasterHoldsMainFiles ==
    Combined =>
        /\ \A f \in MainFiles \cap DOMAIN files :
               \A i \in DOMAIN files[f].rows :
                   /\ MASTER_FILE \in DOMAIN files
                   /\ \E k \in DOMAIN files[MASTER_FILE].rows :
                          TaggedRowOf(files[MASTER_FILE].rows[k], files[f].rows[i], f)
        /\ MASTER_FILE \in DOMAIN files =>
               \A k \in DOMAIN files[MASTER_FILE].rows :
                   \E f \in DOMAIN files \ {MASTER_FILE} :
                       /\ ~Contains(f, <<"summary">>) /\ ~Contains(f, <<"details">>)
                       /\ \E i \in DOMAIN files[f].rows :
                              TaggedRowOf(files[MASTER_FILE].rows[k], files[f].rows[i], f)

\* the same without the driver's insights file among the main files
C23_MasterHoldsOptimizationResults ==
    Combined =>
        /\ \A f \in (MainFiles \ {DRIVER_FILE}) \cap DOMAIN files :
               \A i \in DOMAIN files[f].rows :
                   /\ MASTER_FILE \in DOMAIN files
                   /\ \E k \in DOMAIN files[MASTER_FILE].rows :
                          TaggedRowOf(files[MASTER_FILE].rows[k], files[f].rows[i], f)
        /\ MASTER_FILE \in DOMAIN files =>
               \A k \in DOMAIN files[MASTER_FILE].rows :
                   \E f \in DOMAIN files \ {MASTER_FILE} :
                       /\ ~Contains(f, <<"summary">>) /\ ~Contains(f, <<"details">>)
                       /\ \E i \in DOMAIN files[f].rows :
                              TaggedRowOf(files[MASTER_FILE].rows[k], files[f].rows[i], f)

\* ---- C28 ---------------------------------------------------------------
\* C28: the combiner's filter never takes the combiner's own output file,
\* and a second run over the same recommendation files writes the master
\* table the first run wrote, every row of a taken file in it once
C28_CombinerIdempotent ==
    /\ inst = "combine" => ~is_main_summary(MASTER_FILE)
    /\ (inst = "combine" /\ progress = 2) =>
           /\ log[2] = log[1]
           /\ log[2].written =>
                  /\ files[MASTER_FILE] = log[1].master
                  /\ \A j, k \in DOMAIN log[2].master.rows :
                         log[2].master.rows[j] = log[2].master.rows[k] => j = k

\* a second run with the first run's master table, of three rows or more
\* from several files, in the directory it lists
C28_Witness ==
    /\ inst = "combine" /\ progress = 2
    /\ log[1].written
    /\ MASTER_FILE \in Range(listdir(files, run.order))
    /\ Len(log[2].master.rows) >= 3
    /\ \E j, k \in DOMAIN log[2].master.rows :
           log[2].master.rows[j].Module_Name # log[2].master.rows[k].Module_Name

====
